---- MODULE Spec2Model ----
(***************************************************************************)
(* mautrix-syncproxy: the lifecycle of one sync target.                    *)
(*                                                                         *)
(* The model follows one appservice id through the registry (targets map), *)
(* the HTTP control handlers (PUT / DELETE), process start-up              *)
(* (LoadTargets + main), SyncTarget.Start / Stop, SyncTarget.sync and      *)
(* SyncTarget.tryPostTransaction / postTransaction, together with the row  *)
(* of the targets table that belongs to the id.  Targets share no state    *)
(* except the registry map and the id counters, so one id is followed.     *)
(*                                                                         *)
(* Goroutines.  Every `go target.Start()` is an anonymous goroutine; the   *)
(* ones that have not yet taken target.lock are counted (nCheck: before    *)
(* the `if target.running` test, nLockWait: blocked in target.lock.Lock). *)
(* `loops` counts the Start calls that are between Lock() and Unlock();    *)
(* pc and the loop-local variables describe the call inside.               *)
(*                                                                         *)
(* Steps.  A step of the loop goroutine runs from one suspension point     *)
(* (a request in flight, a retry sleep) to the next one.  A request that   *)
(* is issued on a cancelled context fails inside the HTTP client before    *)
(* anything is written to the network, so it is never "in flight".         *)
(***************************************************************************)
EXTENDS Naturals, Sequences

\* ------------------------------------------------------------------ bounds
\* Start goroutines alive at once (pending, blocked on the lock, or inside).
MaxStarts == 2
\* Resume tokens the homeserver may return are 1..MaxToken.
MaxToken == 2
\* One-time-key counts the homeserver may report are 0..MaxOTK.
MaxOTK == 1
\* DELETE handlers blocked in wg.Wait() at once.
MaxDeletes == 1
\* Identifiers drawn from the transaction id counter.
MaxDraws == 4
\* The clock read by nextTxnID takes the values 0..MaxTime.
MaxTime == 1
\* PUT requests for one id followed through the handler.
MaxRequests == 3

\* --------------------------------------------------------- program constants
initialSyncRetrySleep == 2
maxSyncRetryInterval == 120
initialTransactionRetrySleep == 2
maxTransactionRetryInterval == 120

\* The zero value of SyncTarget.NextBatch (the empty string) is token 0.
Tokens == 1..MaxToken
OTKCounts == 0..MaxOTK
\* len(...) of a list of the sync response: empty or not.
Lens == {0, 1}
\* Values of hs_token: missing, or some bearer token.
HSTokens == {"", "hs"}

\* Errors SyncTarget.sync returns to Start ("" while it has not returned).
ErrCanceled == "context canceled"
ErrTxnCanceled == "error sending transaction: context canceled"
ErrUnknownToken == "M_UNKNOWN_TOKEN"
ErrFilter == "failed to create filter"
ErrFilterUnknownToken == "failed to create filter: M_UNKNOWN_TOKEN"
ErrTxnWsNotConnected == "error sending transaction: websocket not connected"
ErrPanic == "panic"

ProxyErrorLoggedOut == "FI.MAU.CLIENT_LOGGED_OUT"
ProxyErrorUnknown == "M_UNKNOWN"

\* ------------------------------------------- downstream responses and errors
\* The appservice ids a downstream may name in sent_to; the target followed is
\* AppserviceID.
AppserviceIDs == {"T1", "T2"}
AppserviceID == "T1"

SendStatusOK == "ok"
SendStatusWebsocketNotConnected == "websocket-not-connected"
\* The per-target statuses of com.beeper.asmux.sent_to: the two the relay knows,
\* some other one, and the empty string.
SendStatuses == {SendStatusOK, SendStatusWebsocketNotConnected, "failed", ""}
\* The id has no entry in the sent_to map.
Absent == "<absent>"
\* Non-nil sent_to maps: each id is absent or has a status.
SentToMaps == [AppserviceIDs -> SendStatuses \cup {Absent}]
NoSentTo == [a \in AppserviceIDs |-> Absent]

\* errcode of a JSON error body: errFiMauWsNotConnected, or another one.
ErrCodeWsNotConnected == "FI.MAU.WS_NOT_CONNECTED"
ErrCodes == {ErrCodeWsNotConnected, "M_UNKNOWN"}

\* What http.DefaultClient.Do can return: a transport error (Do = FALSE), or a
\* response with a status code whose body does or does not decode as JSON;
\* a decoded error body has an errcode, a decoded 2xx body has the synchronous
\* flag and the sent_to map (nil when the field is missing).
TransportFailure ==
    [Do |-> FALSE, StatusCode |-> 0, Decodes |-> FALSE, ErrCode |-> "",
     Synchronous |-> FALSE, SentToNil |-> TRUE, SentTo |-> NoSentTo]
ErrorResponses ==
    {[Do |-> TRUE, StatusCode |-> c, Decodes |-> FALSE, ErrCode |-> "",
      Synchronous |-> FALSE, SentToNil |-> TRUE, SentTo |-> NoSentTo] :
        c \in {199, 300, 502}}
    \cup
    {[Do |-> TRUE, StatusCode |-> c, Decodes |-> TRUE, ErrCode |-> e,
      Synchronous |-> FALSE, SentToNil |-> TRUE, SentTo |-> NoSentTo] :
        c \in {199, 300, 502}, e \in ErrCodes}
OKResponses ==
    {[Do |-> TRUE, StatusCode |-> c, Decodes |-> FALSE, ErrCode |-> "",
      Synchronous |-> FALSE, SentToNil |-> TRUE, SentTo |-> NoSentTo] :
        c \in {200, 299}}
    \cup
    {[Do |-> TRUE, StatusCode |-> c, Decodes |-> TRUE, ErrCode |-> "",
      Synchronous |-> y, SentToNil |-> TRUE, SentTo |-> NoSentTo] :
        c \in {200, 299}, y \in BOOLEAN}
    \cup
    {[Do |-> TRUE, StatusCode |-> c, Decodes |-> TRUE, ErrCode |-> "",
      Synchronous |-> y, SentToNil |-> FALSE, SentTo |-> m] :
        c \in {200, 299}, y \in BOOLEAN, m \in SentToMaps}
Responses == {TransportFailure} \cup ErrorResponses \cup OKResponses

\* The errors postTransaction returns once the request has been made.
NoErr == "nil"
errWebsocketNotConnected == "server said the transaction websocket is not connected"
ErrSend == "failed to send transaction"
ErrHTTPNonJSON == "transaction returned HTTP %d and non-JSON body"
ErrHTTP == "transaction returned HTTP %d"
ErrNonJSON == "transaction returned HTTP %d, but had non-JSON body"
ErrNotSynchronous == "EXPECT_SYNCHRONOUS is set and server didn't confirm support"
ErrMissingSentTo == "synchronous delivery confirmation was missing sent_to"
ErrNotReached == "server said it didn't reach the appservice"
ErrNotConfirmed == "server didn't confirm synchronous delivery"

\* ------------------------------------------------- sync responses, transactions
\* The parts of a sync response that sync looks at: the numbers of to-device
\* events, of changed and of left device-list entries, and the one-time-key count.
SyncResponses ==
    [events : Lens, otk : OTKCounts, changed : Lens, left : Lens]
NoSyncResp == [events |-> 0, otk |-> 0, changed |-> 0, left |-> 0]

\* An appservice.Transaction as syncToTransaction fills it: the events, the
\* device lists (nil or the response's), the one-time-key count (nil or a map
\* with the response's count).
Txn(events, lists, changed, left, otks, otk) ==
    [made |-> TRUE, EphemeralEvents |-> events,
     DeviceLists |-> lists, Changed |-> IF lists THEN changed ELSE 0,
     Left |-> IF lists THEN left ELSE 0,
     DeviceOTKCount |-> otks, Count |-> IF otks THEN otk ELSE 0]
NoTxn ==
    [made |-> FALSE, EphemeralEvents |-> 0, DeviceLists |-> FALSE, Changed |-> 0,
     Left |-> 0, DeviceOTKCount |-> FALSE, Count |-> 0]

\* ------------------------------------------------------------ PUT requests
\* The body of a PUT request: the configurable fields of a SyncTarget.
Requests ==
    [BotAccessToken : {"x", "y"}, HSToken : HSTokens, Address : {"x"},
     UserID : {"x", "y"}, DeviceID : {"x"}, IsProxy : BOOLEAN]
NoReq ==
    [BotAccessToken |-> "", HSToken |-> "", Address |-> "", UserID |-> "",
     DeviceID |-> "", IsProxy |-> FALSE]
\* The configurable fields other than hs_token, of a target or of a row.
NoCfg ==
    [BotAccessToken |-> "", Address |-> "", UserID |-> "", DeviceID |-> "",
     IsProxy |-> FALSE]

\* ------------------------------------------------- transaction identifiers
txnIDFormat == "fi.mau.syncproxy_%d_%d"
wrapperTxnIDFormat == "fi.mau.syncproxy.wrapper_%d_%d"
\* fmt.Sprintf(format, time, counter) for one of the two formats.  The formats
\* differ before their first verb and separate the two decimal numbers with an
\* underscore, so two results are equal exactly if format, time and counter are.
Sprintf(format, time, counter) ==
    [format |-> format, time |-> time, counter |-> counter]
NoID == [format |-> "", time |-> 0, counter |-> 0]

\* -------------------------------------------------------- handler goroutines
\* net/http serves every request on a goroutine of its own; two are followed.
Handlers == {"H1", "H2"}

VARIABLES
    \* the registry and the in-memory SyncTarget
    inTargets,      \* the id has an entry in the targets map
    HSToken,        \* target.HSToken
    NextBatch,      \* target.NextBatch
    Active,         \* target.Active
    running,        \* target.running
    cancel,         \* target.cancel # nil
    wgCount,        \* counter of target.wg
    lock,           \* target.lock is held
    ctxCancelled,   \* the context of the current Start call is cancelled
    \* the row of the targets table
    dbRow,          \* the row exists
    dbHSToken,      \* hs_token
    dbNextBatch,    \* next_batch
    dbActive,       \* active
    \* goroutines
    nCheck,         \* Start calls before `if target.running`
    nLockWait,      \* Start calls blocked in target.lock.Lock()
    loops,          \* Start calls between Lock() and Unlock()
    delWaiting,     \* DELETE handlers blocked in target.wg.Wait()
    \* the Start call holding the lock
    pc,             \* where it is
    retryIn,        \* sync: retryIn
    txnRetryIn,     \* tryPostTransaction: retryIn
    otkCountSent,   \* sync: otkCountSent
    prevOTKCount,   \* sync: prevOTKCount
    respNextBatch,  \* sync: resp.NextBatch of the response being delivered
    syncErr,        \* Start: err returned by target.sync (kept until the next Lock)
    proxyErr,       \* Start: proxyErr.Error of the notification being sent
    \* history
    startupPending, \* loaded active by LoadTargets, no SetActive(true) yet
    firstPoll,      \* loaded by LoadTargets, no long-poll has completed yet
    activeWriteFailed, \* the last store write of the active flag returned an error
    delLoop,        \* a DELETE is waiting for a Start call that held the lock when it arrived
    \* output
    delResp,        \* the answer a DELETE handler wrote in the step just taken ("" if none)
    \* postTransaction / tryPostTransaction in detail
    httpResp,       \* what http.DefaultClient.Do returned (or will return) for the attempt
    ExpectSynchronous, \* cfg.ExpectSynchronous
    postErr,        \* the error postTransaction returned for httpResp ("" before it returns)
    tryPostErr,     \* the error tryPostTransaction returned ("" while it has not returned)
    \* sync's handling of a response in detail
    syncResp,       \* the sync response handled last
    txn,            \* the transaction made of it (NoTxn if none was)
    otkEverSent,    \* a transaction of this loop has carried a one-time-key count
    otkLastSent,    \* the count carried by the latest transaction that carried one
    \* the PUT handler in detail
    cfg,            \* the target's other configurable fields (HSToken is above)
    dbCfg,          \* the row's columns for them
    putReq,         \* the body of the PUT request handled last
    putResp,        \* its answer ("" before any)
    wrote,          \* handling it wrote the record to the store
    \* transaction identifiers, for every appservice id
    lastTxnID,      \* the process-wide counter
    now,            \* time.Now().UnixNano()
    IsProxy,        \* IsProxy of each target
    dpc,            \* where each target's delivery is
    txnID,          \* tryPostTransaction's txnID of each target
    pathTxnID,      \* the id in the URL of each target's latest request
    WrappedTxnID,   \* the id in the body of each target's latest request
    draws,          \* the counter values returned by nextTxnID, in order
    wrappedIDs,     \* every txnID made by tryPostTransaction so far
    \* the registry and concurrent PUT handlers, for one appservice id
    targets,        \* the candidate in the map (0: no entry)
    nextReq,        \* requests received so far; a request's candidate has its number
    hpc,            \* where each handler goroutine is
    hReq,           \* the request each handler goroutine serves
    hGot,           \* what GetOrSetTarget returned to it (0: nil, else the entry)
    initState,      \* how far Init of the map's entry has come
    hResp,          \* the handler's answer
    startedOn,      \* the states of Init in which a Start was spawned for the entry
    \* the responses of successive loops of the target
    firstOfLoop,    \* the latest response was the first of its loop
    sentBefore,     \* a transaction before the latest response carried a count
    otkBefore       \* the count carried last before the latest response

memVars == <<inTargets, HSToken, NextBatch, Active, running, cancel, wgCount, lock, ctxCancelled>>
dbVars == <<dbRow, dbHSToken, dbNextBatch, dbActive>>
goVars == <<nCheck, nLockWait, loops, delWaiting>>
loopVars == <<pc, retryIn, txnRetryIn, otkCountSent, prevOTKCount, respNextBatch, syncErr, proxyErr>>
histVars == <<startupPending, firstPoll, activeWriteFailed>>
postVars == <<httpResp, ExpectSynchronous, postErr, tryPostErr>>
\* The variables of the detailed views of single functions; the lifecycle of the
\* target leaves them alone.
emitVars == <<syncResp, txn, otkEverSent, otkLastSent>>
apiVars == <<cfg, dbCfg, putReq, putResp, wrote>>
idVars == <<lastTxnID, now, IsProxy, dpc, txnID, pathTxnID, WrappedTxnID, draws,
            wrappedIDs>>
regVars == <<targets, nextReq, hpc, hReq, hGot, initState, hResp, startedOn>>
lifeVars == <<firstOfLoop, sentBefore, otkBefore>>
moreVars == <<regVars, lifeVars>>
auxVars == <<postVars, emitVars, apiVars, idVars, moreVars>>
vars == <<memVars, dbVars, goVars, loopVars, histVars, delLoop, delResp, auxVars>>

\* Where the Start call holding the lock can be.
\*   idle       no Start call holds the lock
\*   locked     Lock() taken, running set, before SetActive(true)
\*   active     after SetActive(true), before target.cancel is installed
\*   filter     sync: CreateFilter in flight
\*   poll       sync: SyncRequest in flight
\*   sleep      sync: retry sleep
\*   post       tryPostTransaction(txn): request in flight
\*   postsleep  tryPostTransaction(txn): retry sleep
\*   npost      tryPostTransaction(error): request in flight
\*   nsleep     tryPostTransaction(error): retry sleep
\*   exit       Start is returning: deferred SetActive(false) is next
\*   cleanup    deferred running=false, cancel=nil, wg.Done(), Unlock() is next
SyncPcs == {"filter", "poll", "sleep", "post", "postsleep"}
NotifyPcs == {"npost", "nsleep"}
ActivePcs == {"active", "exit"} \cup SyncPcs \cup NotifyPcs
Pcs == {"idle", "locked", "cleanup"} \cup ActivePcs

\* The target's lifecycle does not look into the attempts.
NoOtherDetail ==
    /\ syncResp = NoSyncResp
    /\ txn = NoTxn
    /\ otkEverSent = FALSE
    /\ otkLastSent = 0
    /\ cfg = NoCfg
    /\ dbCfg = NoCfg
    /\ putReq = NoReq
    /\ putResp = ""
    /\ wrote = FALSE
    /\ lastTxnID = 0
    /\ now = 0
    /\ IsProxy = [t \in AppserviceIDs |-> FALSE]
    /\ dpc = [t \in AppserviceIDs |-> "none"]
    /\ txnID = [t \in AppserviceIDs |-> NoID]
    /\ pathTxnID = [t \in AppserviceIDs |-> NoID]
    /\ WrappedTxnID = [t \in AppserviceIDs |-> NoID]
    /\ draws = <<>>
    /\ wrappedIDs = {}
    /\ targets = 0
    /\ nextReq = 0
    /\ hpc = [h \in Handlers |-> "idle"]
    /\ hReq = [h \in Handlers |-> 0]
    /\ hGot = [h \in Handlers |-> 0]
    /\ initState = "none"
    /\ hResp = [h \in Handlers |-> ""]
    /\ startedOn = {}
    /\ firstOfLoop = FALSE
    /\ sentBefore = FALSE
    /\ otkBefore = 0

NoDetail ==
    /\ httpResp = TransportFailure
    /\ ExpectSynchronous = FALSE
    /\ postErr = ""
    /\ tryPostErr = ""
    /\ NoOtherDetail

Init ==
    /\ inTargets = FALSE
    /\ HSToken = ""
    /\ NextBatch = 0
    /\ Active = FALSE
    /\ running = FALSE
    /\ cancel = FALSE
    /\ wgCount = 0
    /\ lock = FALSE
    /\ ctxCancelled = FALSE
    /\ dbRow = FALSE
    /\ dbHSToken = ""
    /\ dbNextBatch = 0
    /\ dbActive = FALSE
    /\ nCheck = 0
    /\ nLockWait = 0
    /\ loops = 0
    /\ delWaiting = 0
    /\ pc = "idle"
    /\ retryIn = initialSyncRetrySleep
    /\ txnRetryIn = initialTransactionRetrySleep
    /\ otkCountSent = FALSE
    /\ prevOTKCount = 0
    /\ respNextBatch = 0
    /\ syncErr = ""
    /\ proxyErr = ""
    /\ startupPending = FALSE
    /\ firstPoll = FALSE
    /\ activeWriteFailed = FALSE
    /\ delLoop = FALSE
    /\ delResp = ""
    /\ NoDetail

\* ----------------------------------------------------------------- helpers

\* Start goroutines alive.
Starts == nCheck + nLockWait + loops

\* errors.Is(err, context.Canceled)
IsCanceled(err) == err \in {ErrCanceled, ErrTxnCanceled}

\* errors.Is(err, mautrix.MUnknownToken): fmt.Errorf("...: %w") keeps the chain.
IsUnknownToken(err) == err \in {ErrUnknownToken, ErrFilterUnknownToken}

\* Variant of NextRetry without the cap.
NextRetry_NoCap(r, max) == r * 2

\* retryIn *= 2; if retryIn > max { retryIn = max }
NextRetry(r, max) == IF r * 2 > max THEN max ELSE r * 2


\* ------------------------------------------------------------------- store

\* Variant of SetActive that assigns the field only after a successful UPDATE.
SetActive_WriteFirst(active, ok) ==
    IF Active = active \/ ~ok
    THEN UNCHANGED <<Active, dbActive, activeWriteFailed>>
    ELSE /\ Active' = active
         /\ dbActive' = IF dbRow THEN active ELSE dbActive
         /\ activeWriteFailed' = FALSE

\* SyncTarget.SetActive: nothing when the value is unchanged; otherwise the field
\* is assigned before the UPDATE, which changes the row only if it exists and
\* the statement succeeds (ok).
SetActive(active, ok) ==
    IF Active = active
    THEN UNCHANGED <<Active, dbActive, activeWriteFailed>>
    ELSE /\ Active' = active
         /\ dbActive' = IF ok /\ dbRow THEN active ELSE dbActive
         /\ activeWriteFailed' = ~ok

\* Variant of SetNextBatch whose UPDATE writes the token the field had before.
SetNextBatch_WritesPrevious(nextBatch, ok) ==
    IF NextBatch = nextBatch
    THEN UNCHANGED <<NextBatch, dbNextBatch>>
    ELSE /\ NextBatch' = nextBatch
         /\ dbNextBatch' = IF ok /\ dbRow THEN NextBatch ELSE dbNextBatch

\* SyncTarget.SetNextBatch: as SetActive, for next_batch.
SetNextBatch(nextBatch, ok) ==
    IF NextBatch = nextBatch
    THEN UNCHANGED <<NextBatch, dbNextBatch>>
    ELSE /\ NextBatch' = nextBatch
         /\ dbNextBatch' = IF ok /\ dbRow THEN nextBatch ELSE dbNextBatch

\* Variant of Upsert whose ON CONFLICT clause also sets next_batch and active.
Upsert_AllColumns(hs, ok) ==
    IF ~ok
    THEN UNCHANGED <<dbRow, dbHSToken, dbNextBatch, dbActive, activeWriteFailed>>
    ELSE /\ dbRow' = TRUE
         /\ dbHSToken' = hs
         /\ dbNextBatch' = NextBatch
         /\ dbActive' = Active
         /\ activeWriteFailed' = FALSE

\* SyncTarget.Upsert with the target's hs_token already set to hs: INSERT of the
\* whole record, or on conflict an UPDATE of the configuration columns only
\* (next_batch and active are not in the SET list).  The sqlite3 statement has no
\* VALUES clause and always fails: that is the case ok = FALSE.
Upsert(hs, ok) ==
    IF ~ok
    THEN UNCHANGED <<dbRow, dbHSToken, dbNextBatch, dbActive, activeWriteFailed>>
    ELSE IF dbRow
    THEN /\ dbHSToken' = hs
         /\ UNCHANGED <<dbRow, dbNextBatch, dbActive, activeWriteFailed>>
    ELSE /\ dbRow' = TRUE
         /\ dbHSToken' = hs
         /\ dbNextBatch' = NextBatch
         /\ dbActive' = Active
         /\ activeWriteFailed' = FALSE

\* LoadTargets: the SELECT names every column except next_batch, so the loaded
\* target's NextBatch is the zero value.
LoadedNextBatch == 0

\* ----------------------------------------------------------- control plane

\* A step that is not the answer of a DELETE handler, does not end a Start call
\* and is none of the steps of the detailed views.
Quiet ==
    /\ delResp' = ""
    /\ UNCHANGED <<delLoop, auxVars>>

\* SyncTarget.Stop: cancel the current context if a cancel function is installed.
\* Variant of Stop that never cancels.
Stop_Never == UNCHANGED ctxCancelled

Stop == ctxCancelled' = (ctxCancelled \/ cancel)

\* startSync, PUT: GetOrSetTarget installs the request as the target when the id
\* is new; an existing target gets the request's fields when any differs; the
\* record is upserted when it is new or changed; then `go target.Start()`.
\* A failed upsert answers 500 without starting.
Put(hs, ok) ==
    /\ Starts < MaxStarts
    /\ inTargets' = TRUE
    /\ HSToken' = hs
    /\ IF ~inTargets \/ HSToken # hs
       THEN /\ Upsert(hs, ok)
            /\ nCheck' = IF ok THEN nCheck + 1 ELSE nCheck
       ELSE /\ nCheck' = nCheck + 1
            /\ UNCHANGED <<dbVars, activeWriteFailed>>
    /\ UNCHANGED <<NextBatch, Active, running, cancel, wgCount, lock, ctxCancelled>>
    /\ UNCHANGED <<nLockWait, loops, delWaiting, loopVars, startupPending, firstPoll>>
    /\ Quiet

\* The answers of the DELETE handler.
errTargetNotFound == "M_NOT_FOUND"
errTargetNotActive == "FI.MAU.SYNCPROXY.NOT_ACTIVE"
DeleteStopped == "204 No Content"
\* The answer of the PUT handler to a failed upsert.
errUpsertFailed == "FI.MAU.SYNCPROXY.UPSERT_FAILED"

\* Variant of WaitReturns: the handler answers without waiting.
WaitReturns_NoWait == TRUE

\* target.wg.Wait() returns once the counter is zero.
WaitReturns == wgCount = 0

\* startSync, DELETE on a registered, active target: Stop(), then wg.Wait().
DeleteStop ==
    /\ inTargets /\ Active
    /\ delWaiting < MaxDeletes
    /\ Stop
    /\ delWaiting' = delWaiting + 1
    /\ delLoop' = (delLoop \/ loops > 0)
    /\ delResp' = ""
    /\ UNCHANGED <<inTargets, HSToken, NextBatch, Active, running, cancel, wgCount, lock>>
    /\ UNCHANGED <<dbVars, nCheck, nLockWait, loops, loopVars, histVars, auxVars>>

\* startSync, DELETE: wg.Wait() returns once the counter is zero; 204 is answered.
DeleteReturn ==
    /\ delWaiting > 0
    /\ WaitReturns
    /\ delWaiting' = delWaiting - 1
    /\ delResp' = DeleteStopped
    /\ UNCHANGED <<memVars, dbVars, nCheck, nLockWait, loops, loopVars, histVars>>
    /\ UNCHANGED <<delLoop, auxVars>>

\* startSync, DELETE for an id that is not in the targets map: 404 M_NOT_FOUND.
DeleteNotFound ==
    /\ ~inTargets
    /\ delResp' = errTargetNotFound
    /\ UNCHANGED <<memVars, dbVars, goVars, loopVars, histVars, delLoop, auxVars>>

\* startSync, DELETE for a target whose Active flag is false: 404 NOT_ACTIVE.
DeleteNotActive ==
    /\ inTargets /\ ~Active
    /\ delResp' = errTargetNotActive
    /\ UNCHANGED <<memVars, dbVars, goVars, loopVars, histVars, delLoop, auxVars>>

\* The process is restarted: every goroutine and all memory is gone, LoadTargets
\* rebuilds the registry from the table and main starts the targets loaded active.
Restart ==
    /\ inTargets' = dbRow
    /\ HSToken' = IF dbRow THEN dbHSToken ELSE ""
    /\ NextBatch' = LoadedNextBatch
    /\ Active' = (dbRow /\ dbActive)
    /\ running' = FALSE
    /\ cancel' = FALSE
    /\ wgCount' = 0
    /\ lock' = FALSE
    /\ ctxCancelled' = FALSE
    /\ nCheck' = IF dbRow /\ dbActive THEN 1 ELSE 0
    /\ nLockWait' = 0
    /\ loops' = 0
    /\ delWaiting' = 0
    /\ pc' = "idle"
    /\ retryIn' = initialSyncRetrySleep
    /\ txnRetryIn' = initialTransactionRetrySleep
    /\ otkCountSent' = FALSE
    /\ prevOTKCount' = 0
    /\ respNextBatch' = 0
    /\ syncErr' = ""
    /\ proxyErr' = ""
    /\ startupPending' = (dbRow /\ dbActive)
    /\ firstPoll' = dbRow
    /\ activeWriteFailed' = FALSE
    /\ delLoop' = FALSE
    /\ delResp' = ""
    /\ UNCHANGED <<dbVars, auxVars>>

\* ------------------------------------------------------------------- Start

\* Start, first lines: `if target.running { target.Stop() }`, read without the lock.
StartCheck ==
    /\ nCheck > 0
    /\ nCheck' = nCheck - 1
    /\ nLockWait' = nLockWait + 1
    /\ IF running THEN Stop ELSE UNCHANGED ctxCancelled
    /\ UNCHANGED <<inTargets, HSToken, NextBatch, Active, running, cancel, wgCount, lock>>
    /\ UNCHANGED <<dbVars, loops, delWaiting, loopVars, histVars>>
    /\ Quiet

\* Variant of LockFree: Start without the mutex.
LockFree_NoMutex == TRUE

\* target.lock.Lock() returns only while no other call holds the mutex.
LockFree == ~lock

\* Start: Lock(); target.wg = sync.WaitGroup{}; wg.Add(1); running = true.
StartLock ==
    /\ nLockWait > 0
    /\ LockFree
    /\ lock' = TRUE
    /\ nLockWait' = nLockWait - 1
    /\ loops' = loops + 1
    /\ wgCount' = 1
    /\ running' = TRUE
    /\ pc' = "locked"
    /\ syncErr' = ""
    /\ UNCHANGED <<inTargets, HSToken, NextBatch, Active, cancel, ctxCancelled>>
    /\ UNCHANGED <<dbVars, nCheck, delWaiting, histVars>>
    /\ UNCHANGED <<retryIn, txnRetryIn, otkCountSent, prevOTKCount, respNextBatch, proxyErr>>
    /\ Quiet

\* Start: SetActive(true).
StartSetActive ==
    /\ pc = "locked"
    /\ \E ok \in BOOLEAN : SetActive(TRUE, ok)
    /\ startupPending' = FALSE
    /\ pc' = "active"
    /\ UNCHANGED <<inTargets, HSToken, NextBatch, running, cancel, wgCount, lock, ctxCancelled>>
    /\ UNCHANGED <<dbRow, dbHSToken, dbNextBatch, goVars, firstPoll>>
    /\ UNCHANGED <<retryIn, txnRetryIn, otkCountSent, prevOTKCount, respNextBatch, syncErr, proxyErr>>
    /\ Quiet

\* Start: a fresh context, target.cancel = cancelFunc; sync begins with CreateFilter.
StartSync ==
    /\ pc = "active"
    /\ cancel' = TRUE
    /\ ctxCancelled' = FALSE
    /\ pc' = "filter"
    /\ UNCHANGED <<inTargets, HSToken, NextBatch, Active, running, wgCount, lock>>
    /\ UNCHANGED <<dbVars, goVars, histVars>>
    /\ UNCHANGED <<retryIn, txnRetryIn, otkCountSent, prevOTKCount, respNextBatch, syncErr, proxyErr>>
    /\ Quiet


\* -------------------------------------------------------------- dispatcher

\* Variant of CtxErr: the loop never looks at its context.
CtxErr_Never == FALSE

\* ctx.Err() != nil, as sync and tryPostTransaction test it after a failure and
\* as `case <-ctx.Done()` of their retry sleeps observes it.
CtxErr == ctxCancelled

\* postTransaction puts a request on the wire only if the target has an hs_token
\* ("target is missing hs_token" is returned before http.DefaultClient.Do).
PostTransactionSends == HSToken # ""

\* One call of postTransaction from tryPostTransaction's loop on a context that
\* is not cancelled, up to the next suspension point: without an hs_token it
\* fails without a request and tryPostTransaction goes to its retry sleep
\* (sleepPc); otherwise the request is in flight (wirePc).
Attempt(wirePc, sleepPc) ==
    IF PostTransactionSends THEN wirePc ELSE sleepPc

\* Variant of ProxyErrorOf without the M_UNKNOWN_TOKEN case.
ProxyErrorOf_AlwaysUnknown(err) == ProxyErrorUnknown

\* Start: the error kind of the notification for a sync error.
ProxyErrorOf(err) ==
    IF IsUnknownToken(err) THEN ProxyErrorLoggedOut ELSE ProxyErrorUnknown

\* Variant of Notifies in which Start also stays silent about a delivery that
\* ended with websocket not connected.
Notifies_ExceptWs(err) ==
    err \notin {ErrCanceled, ErrTxnCanceled, ErrPanic, ErrTxnWsNotConnected}

\* Start: whether the error sync returned is notified downstream.  A recovered
\* panic unwinds Start without reaching the notification.
Notifies(err) == ~IsCanceled(err) /\ err # ErrPanic

\* Variant of SyncReturns in which the one-time-key bookkeeping outlives the call
\* of sync.
SyncReturns_KeepsOTK(err) ==
    /\ syncErr' = err
    /\ retryIn' = initialSyncRetrySleep
    /\ txnRetryIn' = initialTransactionRetrySleep
    /\ UNCHANGED <<otkCountSent, prevOTKCount>>
    /\ respNextBatch' = 0
    /\ IF ~(err \in {ErrCanceled, ErrTxnCanceled}) /\ err # ErrPanic
       THEN /\ proxyErr' = (IF err \in {ErrUnknownToken, ErrFilterUnknownToken}
                            THEN ProxyErrorLoggedOut ELSE ProxyErrorUnknown)
            /\ pc' = IF ctxCancelled THEN "exit"
                     ELSE IF HSToken # "" THEN "npost" ELSE "nsleep"
       ELSE /\ proxyErr' = ""
            /\ pc' = "exit"

\* sync returns err (or panics) and Start handles it: nothing for a cancellation,
\* otherwise an errorRequest is built and tryPostTransaction makes its first
\* attempt; on a cancelled context that attempt fails without a request and
\* tryPostTransaction returns ctx.Err(), which Start logs.  The loop's local
\* variables are dead from here on.
SyncReturns(err) ==
    /\ syncErr' = err
    /\ retryIn' = initialSyncRetrySleep
    /\ txnRetryIn' = initialTransactionRetrySleep
    /\ otkCountSent' = FALSE
    /\ prevOTKCount' = 0
    /\ respNextBatch' = 0
    /\ IF Notifies(err)
       THEN /\ proxyErr' = ProxyErrorOf(err)
            /\ pc' = IF CtxErr THEN "exit" ELSE Attempt("npost", "nsleep")
       ELSE /\ proxyErr' = ""
            /\ pc' = "exit"

\* The loop goroutine's steps change nothing of these.
LoopFrame ==
    /\ UNCHANGED <<inTargets, HSToken, Active, running, cancel, wgCount, lock, ctxCancelled,
                   dbRow, dbHSToken, dbActive, goVars, startupPending, activeWriteFailed>>
    /\ Quiet

\* -------------------------------------------------------------------- sync

\* sync, line 88: whether the response is turned into a transaction.
NeedTxn(events, otk, changed, left) ==
    events > 0 \/ otk # prevOTKCount \/ ~otkCountSent \/ changed > 0

\* sync: the top of the loop, `resp, err := SyncRequest(..., target.NextBatch, ...,
\* ctx)`, with the locals as given.  On a cancelled context the call fails
\* without a request and sync returns ctx.Err().
PollAgain(r, sent, prev) ==
    IF CtxErr
    THEN SyncReturns(ErrCanceled)
    ELSE /\ pc' = "poll"
         /\ retryIn' = r
         /\ otkCountSent' = sent
         /\ prevOTKCount' = prev
         /\ respNextBatch' = 0
         /\ txnRetryIn' = initialTransactionRetrySleep
         /\ UNCHANGED <<syncErr, proxyErr>>

\* sync, lines 90-95: the OTK bookkeeping, then tryPostTransaction(ctx, txn, nil)
\* up to its first suspension point.  On a cancelled context the first attempt
\* fails without a request and tryPostTransaction returns ctx.Err(), which sync
\* wraps and returns.
SendTxn(otk, tok) ==
    IF CtxErr
    THEN SyncReturns(ErrTxnCanceled)
    ELSE /\ pc' = Attempt("post", "postsleep")
         /\ retryIn' = initialTransactionRetrySleep
         /\ otkCountSent' = TRUE
         /\ prevOTKCount' = otk
         /\ respNextBatch' = tok
         /\ txnRetryIn' = initialTransactionRetrySleep
         /\ UNCHANGED <<syncErr, proxyErr>>

\* CreateFilter (which takes no context) answers.
FilterDone ==
    /\ pc = "filter"
    /\ \/ PollAgain(initialSyncRetrySleep, FALSE, 0)
       \/ SyncReturns(ErrFilter)
       \/ SyncReturns(ErrFilterUnknownToken)
    /\ UNCHANGED <<NextBatch, dbNextBatch, firstPoll>>
    /\ LoopFrame

\* Variant of HandleResponse that stores the resume token before delivering.
HandleResponse_StoreFirst(events, otk, changed, left, tok, bad) ==
    IF events > 0 \/ otk # prevOTKCount \/ ~otkCountSent \/ changed > 0
    THEN /\ \E ok \in BOOLEAN :
              IF NextBatch = tok
              THEN UNCHANGED <<NextBatch, dbNextBatch>>
              ELSE /\ NextBatch' = tok
                   /\ dbNextBatch' = IF ok /\ dbRow THEN tok ELSE dbNextBatch
         /\ IF events > 0 /\ bad
            THEN SyncReturns(ErrPanic)
            ELSE SendTxn(otk, tok)
    ELSE /\ \E ok \in BOOLEAN : SetNextBatch(tok, ok)
         /\ PollAgain(initialTransactionRetrySleep, otkCountSent, prevOTKCount)

\* sync, lines 87-101, for a response (events, otk, changed, left, tok); bad says
\* that a to-device event of it is null, on which syncToTransaction panics.
HandleResponse(events, otk, changed, left, tok, bad) ==
    IF NeedTxn(events, otk, changed, left)
    THEN /\ IF events > 0 /\ bad
            THEN SyncReturns(ErrPanic)
            ELSE SendTxn(otk, tok)
         /\ UNCHANGED <<NextBatch, dbNextBatch>>
    ELSE /\ \E ok \in BOOLEAN : SetNextBatch(tok, ok)
         /\ PollAgain(initialTransactionRetrySleep, otkCountSent, prevOTKCount)

\* SyncRequest returns: an M_UNKNOWN_TOKEN error, any other error (a request
\* aborted by the cancellation among them), or a response.  The answer may have
\* arrived just before a cancellation.
PollDone ==
    /\ pc = "poll"
    /\ firstPoll' = FALSE
    /\ \/ /\ SyncReturns(ErrUnknownToken)
          /\ UNCHANGED <<NextBatch, dbNextBatch>>
       \/ /\ IF CtxErr
             THEN SyncReturns(ErrCanceled)
             ELSE /\ pc' = "sleep"
                  /\ UNCHANGED <<retryIn, txnRetryIn, otkCountSent, prevOTKCount,
                                 respNextBatch, syncErr, proxyErr>>
          /\ UNCHANGED <<NextBatch, dbNextBatch>>
       \/ \E events \in Lens, otk \in OTKCounts, changed \in Lens, left \in Lens,
             tok \in Tokens :
             \E bad \in IF events > 0 THEN BOOLEAN ELSE {FALSE} :
                HandleResponse(events, otk, changed, left, tok, bad)
    /\ LoopFrame

\* Variant of SleepDone that gives up once the delay has reached the cap.
SleepDone_GivesUp ==
    /\ pc = "sleep"
    /\ IF retryIn = maxSyncRetryInterval
       THEN SyncReturns(ErrFilter)
       ELSE PollAgain(NextRetry(retryIn, maxSyncRetryInterval), otkCountSent, prevOTKCount)
    /\ UNCHANGED <<NextBatch, dbNextBatch, firstPoll>>
    /\ LoopFrame

\* sync's retry sleep ends: by the timer, or by ctx.Done().
SleepDone ==
    /\ pc = "sleep"
    /\ PollAgain(NextRetry(retryIn, maxSyncRetryInterval), otkCountSent, prevOTKCount)
    /\ UNCHANGED <<NextBatch, dbNextBatch, firstPoll>>
    /\ LoopFrame

\* The downstream answers a transaction, or the request fails.
\*   success: tryPostTransaction returns nil; sync stores resp.NextBatch and polls
\*   websocket not connected: tryPostTransaction returns the error (ctx.Err() if
\*       the context is cancelled), which sync wraps and returns
\*   any other failure (a request aborted by the cancellation among them):
\*       ctx.Err() is returned if the context is cancelled, else retry sleep
PostDone ==
    /\ pc = "post"
    /\ \/ /\ \E ok \in BOOLEAN : SetNextBatch(respNextBatch, ok)
          /\ PollAgain(retryIn, otkCountSent, prevOTKCount)
       \/ /\ IF CtxErr
             THEN SyncReturns(ErrTxnCanceled)
             ELSE SyncReturns(ErrTxnWsNotConnected)
          /\ UNCHANGED <<NextBatch, dbNextBatch>>
       \/ /\ IF CtxErr
             THEN SyncReturns(ErrTxnCanceled)
             ELSE /\ pc' = "postsleep"
                  /\ UNCHANGED <<retryIn, txnRetryIn, otkCountSent, prevOTKCount,
                                 respNextBatch, syncErr, proxyErr>>
          /\ UNCHANGED <<NextBatch, dbNextBatch>>
    /\ UNCHANGED firstPoll
    /\ LoopFrame

\* tryPostTransaction's retry sleep ends (transaction): by ctx.Done(), or by the
\* timer, after which postTransaction is called again.
PostSleepDone ==
    /\ pc = "postsleep"
    /\ IF CtxErr
       THEN SyncReturns(ErrTxnCanceled)
       ELSE /\ txnRetryIn' = NextRetry(txnRetryIn, maxTransactionRetryInterval)
            /\ pc' = Attempt("post", "postsleep")
            /\ UNCHANGED <<retryIn, otkCountSent, prevOTKCount, respNextBatch,
                           syncErr, proxyErr>>
    /\ UNCHANGED <<NextBatch, dbNextBatch, firstPoll>>
    /\ LoopFrame

\* The downstream answers the error notification, or the request fails:
\* tryPostTransaction returns on success, on websocket not connected and on a
\* cancelled context (Start logs the error and returns); any other failure is
\* retried after a sleep.
NotifyDone ==
    /\ pc = "npost"
    /\ \/ pc' = "exit"
       \/ pc' = IF CtxErr THEN "exit" ELSE "nsleep"
    /\ UNCHANGED <<retryIn, txnRetryIn, otkCountSent, prevOTKCount, respNextBatch,
                   syncErr, proxyErr>>
    /\ UNCHANGED <<NextBatch, dbNextBatch, firstPoll>>
    /\ LoopFrame

\* tryPostTransaction's retry sleep ends (error notification).
NotifySleepDone ==
    /\ pc = "nsleep"
    /\ IF CtxErr
       THEN /\ pc' = "exit"
            /\ UNCHANGED txnRetryIn
       ELSE /\ txnRetryIn' = NextRetry(txnRetryIn, maxTransactionRetryInterval)
            /\ pc' = Attempt("npost", "nsleep")
    /\ UNCHANGED <<retryIn, otkCountSent, prevOTKCount, respNextBatch, syncErr, proxyErr>>
    /\ UNCHANGED <<NextBatch, dbNextBatch, firstPoll>>
    /\ LoopFrame

\* Start's second deferred function (it runs first): SetActive(false).
DeferSetActive ==
    /\ pc = "exit"
    /\ \E ok \in BOOLEAN : SetActive(FALSE, ok)
    /\ pc' = "cleanup"
    /\ UNCHANGED <<inTargets, HSToken, NextBatch, running, cancel, wgCount, lock, ctxCancelled>>
    /\ UNCHANGED <<dbRow, dbHSToken, dbNextBatch, goVars, startupPending, firstPoll>>
    /\ UNCHANGED <<retryIn, txnRetryIn, otkCountSent, prevOTKCount, respNextBatch, syncErr, proxyErr>>
    /\ Quiet

\* Variant of DeferCleanup that leaves running and cancel as they are.
DeferCleanup_KeepsRunning ==
    /\ pc = "cleanup"
    /\ ctxCancelled' = FALSE
    /\ wgCount' = IF wgCount > 0 THEN wgCount - 1 ELSE 0
    /\ lock' = FALSE
    /\ loops' = IF loops > 0 THEN loops - 1 ELSE 0
    /\ pc' = "idle"
    /\ txnRetryIn' = initialTransactionRetrySleep
    /\ proxyErr' = ""
    /\ UNCHANGED <<inTargets, HSToken, NextBatch, Active, running, cancel>>
    /\ UNCHANGED <<dbVars, nCheck, nLockWait, delWaiting, histVars>>
    /\ UNCHANGED <<retryIn, otkCountSent, prevOTKCount, respNextBatch, syncErr>>
    /\ delLoop' = FALSE
    /\ delResp' = ""
    /\ UNCHANGED auxVars

\* Start's first deferred function: running = false; cancel = nil; wg.Done();
\* Unlock(); recover().
DeferCleanup ==
    /\ pc = "cleanup"
    /\ running' = FALSE
    /\ cancel' = FALSE
    /\ ctxCancelled' = FALSE
    /\ wgCount' = IF wgCount > 0 THEN wgCount - 1 ELSE 0
    /\ lock' = FALSE
    /\ loops' = IF loops > 0 THEN loops - 1 ELSE 0
    /\ pc' = "idle"
    /\ txnRetryIn' = initialTransactionRetrySleep
    /\ proxyErr' = ""
    /\ UNCHANGED <<inTargets, HSToken, NextBatch, Active>>
    /\ UNCHANGED <<dbVars, nCheck, nLockWait, delWaiting, histVars>>
    /\ UNCHANGED <<retryIn, otkCountSent, prevOTKCount, respNextBatch, syncErr>>
    /\ delLoop' = FALSE
    /\ delResp' = ""
    /\ UNCHANGED auxVars

Next ==
    \/ \E hs \in HSTokens, ok \in BOOLEAN : Put(hs, ok)
    \/ DeleteStop
    \/ DeleteReturn
    \/ DeleteNotFound
    \/ DeleteNotActive
    \/ Restart
    \/ StartCheck
    \/ StartLock
    \/ StartSetActive
    \/ StartSync
    \/ FilterDone
    \/ PollDone
    \/ SleepDone
    \/ PostDone
    \/ PostSleepDone
    \/ NotifyDone
    \/ NotifySleepDone
    \/ DeferSetActive
    \/ DeferCleanup

Spec == Init /\ [][Next]_vars

\* ------------------------------------------- postTransaction, in detail

\* Variant of PostTransactionErr that takes a synchronous answer without a
\* sent_to map for a success.
PostTransactionErr_NilSentToOK(r, expect) ==
    IF ~r.Do THEN ErrSend
    ELSE IF r.StatusCode >= 300 \/ r.StatusCode < 200
    THEN IF ~r.Decodes THEN ErrHTTPNonJSON
         ELSE IF r.ErrCode = ErrCodeWsNotConnected THEN errWebsocketNotConnected
         ELSE ErrHTTP
    ELSE IF ~r.Decodes THEN ErrNonJSON
    ELSE IF ~r.Synchronous /\ expect THEN ErrNotSynchronous
    ELSE IF r.Synchronous /\ ~r.SentToNil
    THEN LET ok == r.SentTo[AppserviceID] # Absent
             status == IF ok THEN r.SentTo[AppserviceID] ELSE ""
         IN  IF status = SendStatusOK THEN NoErr
             ELSE IF status = SendStatusWebsocketNotConnected THEN errWebsocketNotConnected
             ELSE IF ok THEN ErrNotReached
             ELSE ErrNotConfirmed
    ELSE NoErr

\* postTransaction from http.DefaultClient.Do on: the error returned for what Do
\* returned (r), with cfg.ExpectSynchronous = expect.
PostTransactionErr(r, expect) ==
    IF ~r.Do THEN ErrSend
    ELSE IF r.StatusCode >= 300 \/ r.StatusCode < 200
    THEN IF ~r.Decodes THEN ErrHTTPNonJSON
         ELSE IF r.ErrCode = ErrCodeWsNotConnected THEN errWebsocketNotConnected
         ELSE ErrHTTP
    ELSE IF ~r.Decodes THEN ErrNonJSON
    ELSE IF ~r.Synchronous /\ expect THEN ErrNotSynchronous
    ELSE IF r.Synchronous /\ r.SentToNil THEN ErrMissingSentTo
    ELSE IF r.Synchronous
    THEN LET ok == r.SentTo[AppserviceID] # Absent
             status == IF ok THEN r.SentTo[AppserviceID] ELSE ""
         IN  IF status = SendStatusOK THEN NoErr
             ELSE IF status = SendStatusWebsocketNotConnected THEN errWebsocketNotConnected
             ELSE IF ok THEN ErrNotReached
             ELSE ErrNotConfirmed
    ELSE NoErr

\* Variant of TryPostReturn that retries a websocket-not-connected answer like
\* any other failure.
TryPostReturn_RetriesWs(err) ==
    IF err = NoErr THEN NoErr
    ELSE IF CtxErr THEN ErrCanceled
    ELSE ""

\* tryPostTransaction after an attempt returned err: what it returns, or "" when
\* it goes to its retry sleep.
TryPostReturn(err) ==
    IF err = NoErr THEN NoErr
    ELSE IF CtxErr THEN ErrCanceled
    ELSE IF err = errWebsocketNotConnected THEN errWebsocketNotConnected
    ELSE ""

\* A loop delivering the transaction of its first response: the request of the
\* first attempt is in flight and will be answered by httpResp.
InitPost ==
    /\ inTargets = TRUE
    /\ HSToken = "hs"
    /\ NextBatch = 0
    /\ Active = TRUE
    /\ running = TRUE
    /\ cancel = TRUE
    /\ wgCount = 1
    /\ lock = TRUE
    /\ ctxCancelled = FALSE
    /\ dbRow = TRUE
    /\ dbHSToken = "hs"
    /\ dbNextBatch = 0
    /\ dbActive = TRUE
    /\ nCheck = 0
    /\ nLockWait = 0
    /\ loops = 1
    /\ delWaiting = 0
    /\ pc = "post"
    /\ retryIn = initialSyncRetrySleep
    /\ txnRetryIn = initialTransactionRetrySleep
    /\ otkCountSent = TRUE
    /\ prevOTKCount = 0
    /\ respNextBatch = 1
    /\ syncErr = ""
    /\ proxyErr = ""
    /\ startupPending = FALSE
    /\ firstPoll = FALSE
    /\ activeWriteFailed = FALSE
    /\ delLoop = FALSE
    /\ delResp = ""
    /\ httpResp \in Responses
    /\ ExpectSynchronous \in BOOLEAN
    /\ postErr = ""
    /\ tryPostErr = ""
    /\ NoOtherDetail

\* Only the dispatcher moves in the detailed view.
PostFrame ==
    UNCHANGED <<inTargets, HSToken, NextBatch, Active, running, cancel, wgCount, lock,
                dbVars, goVars, retryIn, otkCountSent, prevOTKCount, respNextBatch,
                syncErr, proxyErr, histVars, delLoop, delResp, ExpectSynchronous,
                emitVars, apiVars, idVars, moreVars>>

\* Stop is called while tryPostTransaction is running.
PostStop ==
    /\ tryPostErr = ""
    /\ ~ctxCancelled
    /\ Stop
    /\ UNCHANGED <<pc, txnRetryIn, httpResp, postErr, tryPostErr>>
    /\ PostFrame

\* Do returns and postTransaction returns its error; tryPostTransaction returns
\* or goes to its retry sleep.  A request on a cancelled context may have been
\* aborted, which Do reports as a transport error.
PostAttemptDone ==
    /\ pc = "post"
    /\ postErr = ""
    /\ \E r \in {httpResp} \cup (IF CtxErr THEN {TransportFailure} ELSE {}) :
          LET err == PostTransactionErr(r, ExpectSynchronous) IN
          /\ httpResp' = r
          /\ postErr' = err
          /\ tryPostErr' = TryPostReturn(err)
          /\ pc' = IF TryPostReturn(err) = "" THEN "postsleep" ELSE "post"
    /\ UNCHANGED <<txnRetryIn, ctxCancelled>>
    /\ PostFrame

\* The retry sleep ends: by ctx.Done(), or by the timer, after which the next
\* attempt's request is in flight.
PostRetry ==
    /\ pc = "postsleep"
    /\ tryPostErr = ""
    /\ IF CtxErr
       THEN /\ tryPostErr' = ErrCanceled
            /\ UNCHANGED <<pc, txnRetryIn, httpResp, postErr>>
       ELSE /\ txnRetryIn' = NextRetry(txnRetryIn, maxTransactionRetryInterval)
            /\ pc' = "post"
            /\ httpResp' \in Responses
            /\ postErr' = ""
            /\ UNCHANGED tryPostErr
    /\ UNCHANGED ctxCancelled
    /\ PostFrame

NextPost ==
    \/ PostStop
    \/ PostAttemptDone
    \/ PostRetry

SpecPost == InitPost /\ [][NextPost]_vars

\* ------------------------------------- sync's handling of a response, in detail

\* Variant of SendOTKs that forgets the first count of a loop.
SendOTKs_OnlyChanged(otk) == otk # prevOTKCount

\* sync, line 89: the sendOTKs argument of syncToTransaction.
SendOTKs(otk) == otk # prevOTKCount \/ ~otkCountSent

\* syncToTransaction(resp, userID, deviceID, sendOTKs).
SyncToTransaction(r, sendOTKs) ==
    Txn(r.events, r.changed > 0 \/ r.left > 0, r.changed, r.left, sendOTKs, r.otk)

\* A loop that has just issued its first long-poll.
InitEmit ==
    /\ inTargets = TRUE
    /\ HSToken = "hs"
    /\ NextBatch = 0
    /\ Active = TRUE
    /\ running = TRUE
    /\ cancel = TRUE
    /\ wgCount = 1
    /\ lock = TRUE
    /\ ctxCancelled = FALSE
    /\ dbRow = TRUE
    /\ dbHSToken = "hs"
    /\ dbNextBatch = 0
    /\ dbActive = TRUE
    /\ nCheck = 0
    /\ nLockWait = 0
    /\ loops = 1
    /\ delWaiting = 0
    /\ pc = "poll"
    /\ retryIn = initialSyncRetrySleep
    /\ txnRetryIn = initialTransactionRetrySleep
    /\ otkCountSent = FALSE
    /\ prevOTKCount = 0
    /\ respNextBatch = 0
    /\ syncErr = ""
    /\ proxyErr = ""
    /\ startupPending = FALSE
    /\ firstPoll = FALSE
    /\ activeWriteFailed = FALSE
    /\ delLoop = FALSE
    /\ delResp = ""
    /\ NoDetail

\* Only sync's locals and the token move in the detailed view.
EmitFrame ==
    UNCHANGED <<inTargets, HSToken, Active, running, cancel, wgCount, lock, ctxCancelled,
                dbRow, dbHSToken, dbActive, goVars, histVars, delLoop, delResp, postVars, apiVars,
                idVars, moreVars>>

\* A long-poll succeeds with response r and token tok: lines 87-101 of sync, with
\* the transaction that syncToTransaction makes when one is needed.
EmitPollDone ==
    /\ pc = "poll"
    /\ \E r \in SyncResponses, tok \in Tokens :
          /\ syncResp' = r
          /\ HandleResponse(r.events, r.otk, r.changed, r.left, tok, FALSE)
          /\ IF NeedTxn(r.events, r.otk, r.changed, r.left)
             THEN /\ txn' = SyncToTransaction(r, SendOTKs(r.otk))
                  /\ otkEverSent' = (otkEverSent \/ SendOTKs(r.otk))
                  /\ otkLastSent' = IF SendOTKs(r.otk) THEN r.otk ELSE otkLastSent
             ELSE /\ txn' = NoTxn
                  /\ UNCHANGED <<otkEverSent, otkLastSent>>
    /\ EmitFrame

\* The transaction is delivered: sync stores the token and polls again.
EmitPostDone ==
    /\ pc = "post"
    /\ SetNextBatch(respNextBatch, TRUE)
    /\ PollAgain(retryIn, otkCountSent, prevOTKCount)
    /\ UNCHANGED emitVars
    /\ EmitFrame

NextEmit ==
    \/ EmitPollDone
    \/ EmitPostDone

SpecEmit == InitEmit /\ [][NextEmit]_vars

\* ------------------------------------------------- the PUT handler, in detail

\* The fields of a request other than hs_token.
CfgOf(req) ==
    [BotAccessToken |-> req.BotAccessToken, Address |-> req.Address,
     UserID |-> req.UserID, DeviceID |-> req.DeviceID, IsProxy |-> req.IsProxy]

\* startSync, lines 91-92: the comparison of the registered target with the
\* request.
FieldsDiffer(req) ==
    \/ cfg.BotAccessToken # req.BotAccessToken
    \/ HSToken # req.HSToken
    \/ cfg.Address # req.Address
    \/ cfg.UserID # req.UserID
    \/ cfg.DeviceID # req.DeviceID

\* startSync, lines 93-97: the assignments to the registered target.
Assigned(req) ==
    [cfg EXCEPT !.BotAccessToken = req.BotAccessToken, !.Address = req.Address,
                !.UserID = req.UserID, !.DeviceID = req.DeviceID]

\* startSync, PUT with body req, the store answering ok to an upsert: a new id
\* gets the request as its target (Init succeeding); an existing target gets the
\* compared fields when one of them differs; a new or changed target is upserted,
\* with all its fields; unless the upsert failed, `go target.Start()`.
ApiPut(req, ok) ==
    /\ Starts < MaxStarts
    /\ putReq' = req
    /\ inTargets' = TRUE
    /\ LET changed == ~inTargets \/ FieldsDiffer(req) IN
       /\ cfg' = IF ~inTargets THEN CfgOf(req)
                 ELSE IF changed THEN Assigned(req) ELSE cfg
       /\ HSToken' = IF changed THEN req.HSToken ELSE HSToken
       /\ IF changed
          THEN /\ Upsert(req.HSToken, ok)
               /\ dbCfg' = IF ok THEN cfg' ELSE dbCfg
               /\ wrote' = ok
          ELSE /\ UNCHANGED <<dbVars, activeWriteFailed, dbCfg>>
               /\ wrote' = FALSE
       /\ putResp' = IF changed /\ ~ok THEN errUpsertFailed ELSE "200 OK"
       /\ nCheck' = IF changed /\ ~ok THEN nCheck ELSE nCheck + 1
    /\ UNCHANGED <<NextBatch, Active, running, cancel, wgCount, lock, ctxCancelled>>
    /\ UNCHANGED <<nLockWait, loops, delWaiting, loopVars, startupPending, firstPoll>>
    /\ UNCHANGED <<delLoop, delResp, postVars, emitVars, idVars, moreVars>>

\* The started goroutines are only counted in this view.
NextApi == \E req \in Requests, ok \in BOOLEAN : ApiPut(req, ok)

SpecApi == Init /\ [][NextApi]_vars

\* --------------------------------------------------- a PUT repeated, in detail

\* A request body whose fields are those of the registered target.
TargetAsRequest ==
    [BotAccessToken |-> cfg.BotAccessToken, HSToken |-> HSToken,
     Address |-> cfg.Address, UserID |-> cfg.UserID, DeviceID |-> cfg.DeviceID,
     IsProxy |-> cfg.IsProxy]

\* The loop of an earlier PUT has settled: its Start holds the lock, has handed
\* the cancel function over and the loop is inside sync, uncancelled, with no
\* other Start pending.
Stabilized ==
    /\ loops = 1 /\ nCheck = 0 /\ nLockWait = 0
    /\ running /\ cancel /\ ~ctxCancelled
    /\ pc \in {"poll", "sleep", "post", "postsleep"}

\* startSync, PUT with the fields the target already has.
PutAgain == Stabilized /\ ApiPut(TargetAsRequest, TRUE)

\* The repeated PUT, the Start it spawns and the loops of the target; no DELETE
\* and no process restart.
NextIdem ==
    \/ PutAgain
    \/ StartCheck \/ StartLock \/ StartSetActive \/ StartSync
    \/ FilterDone \/ PollDone \/ SleepDone \/ PostDone \/ PostSleepDone
    \/ NotifyDone \/ NotifySleepDone
    \/ DeferSetActive \/ DeferCleanup

SpecIdem == InitEmit /\ [][NextIdem]_vars

\* ------------------------------------------- one loop left to itself, fairly

\* The steps of the goroutine running Start, from the first long-poll to the
\* deferred functions; nobody calls PUT, DELETE, Start or Stop.
NextLoop ==
    \/ PollDone \/ SleepDone \/ PostDone \/ PostSleepDone
    \/ NotifyDone \/ NotifySleepDone
    \/ DeferSetActive \/ DeferCleanup

\* The goroutine is scheduled again and again, and every request and every sleep
\* of it ends; which answer a request gets is not constrained.
SpecNotify == InitEmit /\ [][NextLoop]_vars /\ WF_vars(NextLoop)

\* ------------------------------------------ transaction identifiers, in detail
\* Every target delivers on its own goroutine; the goroutines share lastTxnID.

\* Variant of AddUint64 that loses the increment.
AddUint64_Lost(val, delta) == val

\* atomic.AddUint64: the new value, stored and returned in one step.  The
\* counter cannot wrap within MaxDraws draws.
AddUint64(val, delta) == val + delta

\* nextTxnID(format): one step, drawing a counter value and reading the clock.
\* The result is the pair of the counter value and the identifier.
nextTxnID(format) ==
    LET txnIDCounter == AddUint64(lastTxnID, 1) IN
    <<txnIDCounter, Sprintf(format, now, txnIDCounter)>>

\* Everything but the identifiers stays as constructed.
IDFrame ==
    UNCHANGED <<memVars, dbVars, goVars, loopVars, histVars, delLoop, delResp,
                postVars, emitVars, apiVars, moreVars>>

\* The bookkeeping of a draw made in this step.
Drawn(r) ==
    /\ lastTxnID' = r[1]
    /\ draws' = Append(draws, r[1])

\* The clock advances.
Tick ==
    /\ now < MaxTime
    /\ now' = now + 1
    /\ UNCHANGED <<lastTxnID, IsProxy, dpc, txnID, pathTxnID, WrappedTxnID, draws,
                   wrappedIDs>>
    /\ IDFrame

\* A PUT registers target t with is_proxy = proxy.
Register(t, proxy) ==
    /\ dpc[t] = "none"
    /\ dpc' = [dpc EXCEPT ![t] = "idle"]
    /\ IsProxy' = [IsProxy EXCEPT ![t] = proxy]
    /\ UNCHANGED <<lastTxnID, now, txnID, pathTxnID, WrappedTxnID, draws, wrappedIDs>>
    /\ IDFrame

\* tryPostTransaction up to its loop: the transaction's id is drawn.
TryPostBegin(t) ==
    /\ dpc[t] = "idle"
    /\ lastTxnID < MaxDraws
    /\ LET r == nextTxnID(txnIDFormat) IN
       /\ Drawn(r)
       /\ txnID' = [txnID EXCEPT ![t] = r[2]]
       /\ wrappedIDs' = wrappedIDs \cup {r[2]}
    /\ dpc' = [dpc EXCEPT ![t] = "attempt"]
    /\ UNCHANGED <<now, IsProxy, pathTxnID, WrappedTxnID>>
    /\ IDFrame

\* Variant of PathTxnID that uses the transaction's id for a proxy too.
PathTxnID_Same(t, wrapper) == txnID[t]

\* postTransaction: the id in the URL, given the id drawn for a wrapper.
PathTxnID(t, wrapper) == IF IsProxy[t] THEN wrapper ELSE txnID[t]

\* postTransaction up to the request: the body carries txnID; for a proxy a
\* wrapper id is drawn for the path, on every attempt.
PostRequest(t) ==
    /\ dpc[t] = "attempt"
    /\ IsProxy[t] => lastTxnID < MaxDraws
    /\ WrappedTxnID' = [WrappedTxnID EXCEPT ![t] = txnID[t]]
    /\ LET r == nextTxnID(wrapperTxnIDFormat) IN
       /\ IF IsProxy[t] THEN Drawn(r) ELSE UNCHANGED <<lastTxnID, draws>>
       /\ pathTxnID' = [pathTxnID EXCEPT ![t] = PathTxnID(t, r[2])]
    /\ dpc' = [dpc EXCEPT ![t] = "sent"]
    /\ UNCHANGED <<now, IsProxy, txnID, wrappedIDs>>
    /\ IDFrame

\* Variant of PostAnswered in which a retry forgets the transaction's id.
PostAnswered_Forgets(t, retry) ==
    /\ dpc[t] = "sent"
    /\ dpc' = [dpc EXCEPT ![t] = IF retry THEN "attempt" ELSE "idle"]
    /\ txnID' = [txnID EXCEPT ![t] = IF retry THEN NoID ELSE txnID[t]]
    /\ UNCHANGED <<lastTxnID, now, IsProxy, pathTxnID, WrappedTxnID, draws, wrappedIDs>>
    /\ IDFrame

\* The request ends: tryPostTransaction returns (retry = FALSE) or makes another
\* attempt with the same txnID.
PostAnswered(t, retry) ==
    /\ dpc[t] = "sent"
    /\ dpc' = [dpc EXCEPT ![t] = IF retry THEN "attempt" ELSE "idle"]
    /\ UNCHANGED <<lastTxnID, now, IsProxy, txnID, pathTxnID, WrappedTxnID, draws,
                   wrappedIDs>>
    /\ IDFrame

NextID ==
    \/ Tick
    \/ \E t \in AppserviceIDs, proxy \in BOOLEAN : Register(t, proxy)
    \/ \E t \in AppserviceIDs : TryPostBegin(t)
    \/ \E t \in AppserviceIDs : PostRequest(t)
    \/ \E t \in AppserviceIDs, retry \in BOOLEAN : PostAnswered(t, retry)

SpecID == Init /\ [][NextID]_vars

\* ---------------------------------------- the registry and PUT, step by step
\* Concurrent PUT requests for one appservice id: GetOrSetTarget, Init and the
\* rest of the handler are separate steps of each handler goroutine.

\* Everything but the registry view stays as constructed.
RegFrame ==
    UNCHANGED <<memVars, dbVars, goVars, loopVars, histVars, delLoop, delResp,
                postVars, emitVars, apiVars, idVars, lifeVars>>

\* A PUT request arrives and a handler goroutine takes it; its candidate is the
\* request body (`var req SyncTarget`).
RegReceive(h) ==
    /\ hpc[h] \in {"idle", "done"}
    /\ nextReq < MaxRequests
    /\ nextReq' = nextReq + 1
    /\ hReq' = [hReq EXCEPT ![h] = nextReq + 1]
    /\ hGot' = [hGot EXCEPT ![h] = 0]
    /\ hResp' = [hResp EXCEPT ![h] = ""]
    /\ hpc' = [hpc EXCEPT ![h] = "get"]
    /\ UNCHANGED <<targets, initState, startedOn>>
    /\ RegFrame

\* Variant of Found: the lookup never finds an entry.
Found_Never == FALSE

\* GetOrSetTarget, `target, ok := targets[appserviceID]`.
Found == targets # 0

\* GetOrSetTarget(appserviceID, &req), one step under targetLock: the entry if
\* there is one, else the candidate is installed and nil returned.
GetOrSetTarget(h) ==
    /\ hpc[h] = "get"
    /\ IF Found
       THEN /\ hGot' = [hGot EXCEPT ![h] = targets]
            /\ hpc' = [hpc EXCEPT ![h] = "rest"]
            /\ UNCHANGED <<targets, initState>>
       ELSE /\ targets' = hReq[h]
            /\ hGot' = [hGot EXCEPT ![h] = 0]
            /\ hpc' = [hpc EXCEPT ![h] = "init"]
            /\ initState' = "none"
    /\ UNCHANGED <<nextReq, hReq, hResp, startedOn>>
    /\ RegFrame

\* Init, first statement: target.log is set.
InitLog(h) ==
    /\ hpc[h] = "init"
    /\ initState = "none"
    /\ initState' = "log"
    /\ UNCHANGED <<targets, nextReq, hpc, hReq, hGot, hResp, startedOn>>
    /\ RegFrame

\* Init, mautrix.NewClient: the client is set (ok), or Init fails and the
\* handler answers 404 INVALID_ADDRESS and returns.
InitClient(h, ok) ==
    /\ hpc[h] = "init"
    /\ initState = "log"
    /\ initState' = IF ok THEN "ok" ELSE "failed"
    /\ hpc' = [hpc EXCEPT ![h] = IF ok THEN "rest" ELSE "done"]
    /\ hResp' = [hResp EXCEPT ![h] = IF ok THEN "" ELSE "FI.MAU.SYNCPROXY.INVALID_ADDRESS"]
    /\ UNCHANGED <<targets, nextReq, hReq, hGot, startedOn>>
    /\ RegFrame

\* The rest of the handler (comparison, upsert, `go target.Start()`, 200), the
\* upsert succeeding.  target.log is used on the way: while it is nil (a handler
\* that found the entry before its Init began) the handler panics instead.
HandlerRest(h) ==
    /\ hpc[h] = "rest"
    /\ IF initState = "none"
       THEN /\ hResp' = [hResp EXCEPT ![h] = "panic"]
            /\ UNCHANGED startedOn
       ELSE /\ hResp' = [hResp EXCEPT ![h] = "200 OK"]
            /\ startedOn' = startedOn \cup {initState}
    /\ hpc' = [hpc EXCEPT ![h] = "done"]
    /\ UNCHANGED <<targets, nextReq, hReq, hGot, initState>>
    /\ RegFrame

NextReg ==
    \/ \E h \in Handlers : RegReceive(h)
    \/ \E h \in Handlers : GetOrSetTarget(h)
    \/ \E h \in Handlers : InitLog(h)
    \/ \E h \in Handlers, ok \in BOOLEAN : InitClient(h, ok)
    \/ \E h \in Handlers : HandlerRest(h)

SpecReg == Init /\ [][NextReg]_vars

\* --------------------------------------------- one Start call and DELETE, fairly

\* A Start call, spawned by a PUT for a new target, has just taken the lock:
\* running is set, SetActive(true) and the cancel function are still to come.
InitStop ==
    /\ inTargets = TRUE
    /\ HSToken = "hs"
    /\ NextBatch = 0
    /\ Active = FALSE
    /\ running = TRUE
    /\ cancel = FALSE
    /\ wgCount = 1
    /\ lock = TRUE
    /\ ctxCancelled = FALSE
    /\ dbRow = TRUE
    /\ dbHSToken = "hs"
    /\ dbNextBatch = 0
    /\ dbActive = FALSE
    /\ nCheck = 0
    /\ nLockWait = 0
    /\ loops = 1
    /\ delWaiting = 0
    /\ pc = "locked"
    /\ retryIn = initialSyncRetrySleep
    /\ txnRetryIn = initialTransactionRetrySleep
    /\ otkCountSent = FALSE
    /\ prevOTKCount = 0
    /\ respNextBatch = 0
    /\ syncErr = ""
    /\ proxyErr = ""
    /\ startupPending = FALSE
    /\ firstPoll = FALSE
    /\ activeWriteFailed = FALSE
    /\ delLoop = FALSE
    /\ delResp = ""
    /\ NoDetail

\* The steps of the goroutine running Start, from SetActive(true) on.
StartSteps ==
    \/ StartSetActive \/ StartSync \/ FilterDone
    \/ PollDone \/ SleepDone \/ PostDone \/ PostSleepDone
    \/ NotifyDone \/ NotifySleepDone
    \/ DeferSetActive \/ DeferCleanup

\* That goroutine and DELETE requests; no PUT and no other Start.
NextStop ==
    \/ DeleteStop \/ DeleteReturn \/ DeleteNotActive
    \/ StartSteps

\* The goroutine is scheduled again and again, and every request and every sleep
\* of it ends; which answer a request gets is not constrained.
SpecStop == InitStop /\ [][NextStop]_vars /\ WF_vars(StartSteps)

\* ------------------------------------- the responses of successive loops

\* SyncRequest returns, as in PollDone, with the response and the transaction
\* made of it on record.
LifePollDone ==
    /\ pc = "poll"
    /\ firstPoll' = FALSE
    /\ \/ /\ SyncReturns(ErrUnknownToken)
          /\ UNCHANGED <<NextBatch, dbNextBatch, emitVars, lifeVars>>
       \/ /\ IF CtxErr
             THEN SyncReturns(ErrCanceled)
             ELSE /\ pc' = "sleep"
                  /\ UNCHANGED <<retryIn, txnRetryIn, otkCountSent, prevOTKCount,
                                 respNextBatch, syncErr, proxyErr>>
          /\ UNCHANGED <<NextBatch, dbNextBatch, emitVars, lifeVars>>
       \/ \E r \in SyncResponses, tok \in Tokens :
             \E bad \in IF r.events > 0 THEN BOOLEAN ELSE {FALSE} :
                /\ HandleResponse(r.events, r.otk, r.changed, r.left, tok, bad)
                /\ syncResp' = r
                /\ firstOfLoop' = ~otkCountSent
                /\ sentBefore' = otkEverSent
                /\ otkBefore' = otkLastSent
                /\ IF NeedTxn(r.events, r.otk, r.changed, r.left) /\ ~bad
                   THEN /\ txn' = SyncToTransaction(r, SendOTKs(r.otk))
                        /\ otkEverSent' = (otkEverSent \/ SendOTKs(r.otk))
                        /\ otkLastSent' = IF SendOTKs(r.otk) THEN r.otk ELSE otkLastSent
                   ELSE /\ txn' = NoTxn
                        /\ UNCHANGED <<otkEverSent, otkLastSent>>
    /\ UNCHANGED <<inTargets, HSToken, Active, running, cancel, wgCount, lock, ctxCancelled,
                   dbRow, dbHSToken, dbActive, goVars, startupPending, activeWriteFailed>>
    /\ delResp' = ""
    /\ UNCHANGED <<delLoop, postVars, apiVars, idVars, regVars>>

\* The loops of one target, restarted by repeated PUTs.
NextLife ==
    \/ PutAgain
    \/ StartCheck \/ StartLock \/ StartSetActive \/ StartSync
    \/ FilterDone \/ LifePollDone \/ SleepDone \/ PostDone \/ PostSleepDone
    \/ NotifyDone \/ NotifySleepDone
    \/ DeferSetActive \/ DeferCleanup

SpecLife == InitEmit /\ [][NextLife]_vars

\* ================================================================ properties

\* The points at which the loop is suspended and a cancellation can reach it:
\* the long-poll, sync's retry sleep, a transaction delivery, and the
\* dispatcher's retry sleep.
SuspendedPcs == {"poll", "sleep", "post", "postsleep"}

\* The pcs at which a delivery request is in flight or waiting to be retried.
DeliveryPcs == {"post", "postsleep", "npost", "nsleep"}

\* ------------------------------------------------------------------------ C1
\* C1: for one target at most one Start call is between Lock and Unlock, i.e. at
\* most one execution of the sync loop is in progress at any instant, and the
\* loop only runs while its Start call holds the target's mutex.
C1_AtMostOneLoop ==
    /\ loops <= 1
    /\ pc \in SyncPcs => loops = 1 /\ lock

\* A loop is polling while another Start call for the target waits for the mutex.
C1_Witness == pc = "poll" /\ nLockWait >= 1

\* ------------------------------------------------------------------------ C2
\* C2 as stated: Active is true exactly while a sync loop is executing for the
\* target (between Start's SetActive(true) and its deferred SetActive(false)),
\* the time between LoadTargets and the startup Start calls included.
C2_ActiveIffLoop == Active <=> pc \in ActivePcs

\* C2, corrected: Active is true exactly while a Start call is between its
\* SetActive(true) and its deferred SetActive(false), or the target was loaded
\* by LoadTargets with a stored active flag and the Start that main issues for
\* it has not reached SetActive(true) yet.
C2_ActiveIffLoopOrLoaded == Active <=> (pc \in ActivePcs \/ startupPending)

\* After a restart a target that had synced to a stored token is marked active
\* while its startup Start call has not taken the lock.
C2_Witness ==
    startupPending /\ Active /\ pc = "idle" /\ nCheck + nLockWait = 1 /\ dbNextBatch # 0

\* ------------------------------------------------------------------------ C3
\* C3: within a process, NextBatch changes in memory only in the step that
\* concludes an iteration (the delivery of its transaction succeeded, or no
\* transaction was needed), and then to the token of that response; the stored
\* next_batch changes only in such a step, to the same token, or when the
\* target's row is first inserted, to the in-memory token.  PUT's upsert of an
\* existing row, Start, Stop and the failure notification leave both alone.
\* (What a process restart loads is the subject of C4.)
C3_NextBatchOnlyCommitted ==
    [][ \/ Restart
        \/ /\ NextBatch' # NextBatch =>
                /\ pc' \in {"poll", "exit"}
                /\ \/ pc = "post" /\ NextBatch' = respNextBatch
                   \/ pc = "poll" /\ NextBatch' \in Tokens
           /\ dbNextBatch' # dbNextBatch =>
                \/ NextBatch' # NextBatch /\ dbNextBatch' = NextBatch'
                \/ ~dbRow /\ dbRow' /\ dbNextBatch' = NextBatch /\ NextBatch' = NextBatch
      ]_vars

\* Both copies hold the token of the latest concluded iteration, which replaced
\* an earlier one, and the loop is polling again.
C3_Witness ==
    pc = "poll" /\ NextBatch = 1 /\ dbNextBatch = 1 /\ ~firstPoll /\ otkCountSent
       /\ HSToken = "hs" /\ dbHSToken = ""

\* ------------------------------------------------------------------------ C4
\* C4 as stated: the first long-poll a restarted process issues for a target
\* uses the next_batch stored for it.
C4_RestartResumesStoredToken ==
    (firstPoll /\ pc = "poll") => NextBatch = dbNextBatch

\* ------------------------------------------------------------------------ C5
\* C5: a loop whose context has been cancelled while it is suspended (long-poll,
\* sync's retry sleep, transaction delivery, dispatcher's retry sleep) leaves the
\* suspension point straight for Start's deferred functions: no further long-poll
\* or delivery request, no retry sleep, and no notification request; the deferred
\* SetActive(false) then clears the flag in memory and in the store (if the
\* UPDATE succeeds).
C5_CancelledLoopExits ==
    [][ \/ Restart
        \/ /\ (ctxCancelled /\ pc \in SuspendedPcs /\ pc' # pc) => pc' = "exit"
           /\ (ctxCancelled /\ pc = "exit" /\ pc' # pc) =>
                 /\ pc' = "cleanup"
                 /\ ~Active'
                 /\ ~dbActive' \/ activeWriteFailed'
      ]_vars

\* A loop cancelled by DELETE while suspended has returned the context's error
\* and the target's row says inactive.
C5_Witness ==
    /\ pc = "cleanup" /\ ctxCancelled /\ delWaiting = 1
    /\ syncErr = ErrTxnCanceled
    /\ dbRow /\ ~dbActive /\ ~Active

\* ------------------------------------------------------------------------ C6
\* C6 as stated: a Start call that finds the target marked running cancels the
\* running loop, and a new loop begins only when no other is in progress.
C6_StartCancelsPrevious ==
    [][ /\ (nLockWait' = nLockWait + 1 /\ running) => ctxCancelled'
        /\ loops' > loops => loops = 0
      ]_vars

\* ------------------------------------------------------------------------ C7
\* C7: once a Start call has returned, whatever ended it (cancellation, a sync
\* error with a delivered or an abandoned notification, a recovered panic), the
\* target is inactive in memory and in the store (if the UPDATE succeeded),
\* running is false, the cancel function is cleared, the WaitGroup is done and
\* the mutex is free.
C7_ExitLeavesTargetIdle ==
    (pc = "idle" /\ syncErr # "") =>
        /\ ~Active
        /\ ~dbActive \/ activeWriteFailed
        /\ ~running
        /\ ~cancel
        /\ wgCount = 0
        /\ ~lock
        /\ loops = 0

\* Start has returned after recovering a panic of the loop.
C7_Witness == pc = "idle" /\ syncErr = ErrPanic /\ dbRow /\ ~dbActive

\* ------------------------------------------------------------------------ C8
\* C8 as stated: a delivery that ends with websocket not connected does not end
\* the loop.
C8_WsNotConnectedKeepsLoop == syncErr # ErrTxnWsNotConnected

\* C8, corrected: when a transaction delivery ends with websocket not connected
\* the send is not retried and sync returns the error: the response's token is
\* not stored, no further long-poll is issued, and Start makes the first attempt
\* of a notification of kind unknown while the target is still active.
C8_WsNotConnectedEndsLoop ==
    [][ (syncErr' = ErrTxnWsNotConnected /\ syncErr # syncErr') =>
            /\ pc = "post"
            /\ pc' \in NotifyPcs
            /\ proxyErr' = ProxyErrorUnknown
            /\ NextBatch' = NextBatch
            /\ dbNextBatch' = dbNextBatch
            /\ Active'
      ]_vars

\* The notification for a websocket-not-connected delivery is in flight and the
\* token of the undelivered response has not replaced the stored one.
C8_Witness ==
    /\ syncErr = ErrTxnWsNotConnected /\ pc = "npost"
    /\ NextBatch = 1 /\ dbNextBatch = 1

\* ------------------------------------------------------------------------ C9
\* C9 as stated: the notification is of kind logged out exactly when the
\* long-poll failed with M_UNKNOWN_TOKEN.
C9_LoggedOutOnlyForLongPoll ==
    pc \in NotifyPcs => (proxyErr = ProxyErrorLoggedOut <=> syncErr = ErrUnknownToken)

\* C9, corrected: an error ends the loop at once (no retry sleep, no further
\* long-poll); a notification is made exactly for errors that are neither a
\* cancellation nor a panic; its kind is logged out when the error is
\* M_UNKNOWN_TOKEN from the long-poll or from creating the filter, and unknown
\* for every other error.
C9_ErrorKind ==
    /\ syncErr # "" => pc \notin SyncPcs
    /\ pc \in NotifyPcs => syncErr \notin {"", ErrCanceled, ErrTxnCanceled, ErrPanic}
    /\ (pc \in NotifyPcs \cup {"exit"}
          /\ syncErr \notin {"", ErrCanceled, ErrTxnCanceled, ErrPanic}) =>
            proxyErr = IF syncErr \in {ErrUnknownToken, ErrFilterUnknownToken}
                       THEN ProxyErrorLoggedOut
                       ELSE ProxyErrorUnknown

\* The long-poll of a loop that had already stored a token failed with
\* M_UNKNOWN_TOKEN and the logged-out notification is in flight.
C9_Witness ==
    /\ pc = "npost" /\ syncErr = ErrUnknownToken /\ proxyErr = ProxyErrorLoggedOut
    /\ NextBatch # 0

\* ----------------------------------------------------------------------- C10
\* C10 as stated: a delivery attempted while the target has no hs_token makes no
\* request and is not retried: a step of the loop that starts or resumes a
\* delivery then neither puts a request in flight nor enters a retry sleep.
C10_MissingTokenNotRetried ==
    [][ \/ Restart
        \/ ( /\ HSToken = ""
             /\ pc \notin {"post", "npost"}
             /\ pc' # pc \/ txnRetryIn' # txnRetryIn ) =>
               pc' \notin DeliveryPcs
      ]_vars

\* ----------------------------------------------------------------------- C11
\* The attempt's answer was a 2xx response with a decodable body.
OKDecoded ==
    /\ httpResp.Do
    /\ httpResp.StatusCode >= 200 /\ httpResp.StatusCode < 300
    /\ httpResp.Decodes

\* postTransaction failed with an error that the dispatcher retries: it is in
\* (or has been cancelled out of) its retry sleep.
Retried ==
    /\ postErr \notin {"", NoErr, errWebsocketNotConnected}
    /\ tryPostErr \in {"", ErrCanceled}
    /\ tryPostErr = "" => pc = "postsleep"

\* C11: for a 2xx answer with a decodable body, synchronous with sent_to[T] = "ok"
\* is a success; synchronous without a sent_to map is a retryable failure; not
\* synchronous is a retryable failure when cfg.ExpectSynchronous is set and a
\* success otherwise, whatever else the body holds.
C11_SynchronousContract ==
    (postErr # "" /\ OKDecoded) =>
        /\ ( /\ httpResp.Synchronous
             /\ ~httpResp.SentToNil
             /\ httpResp.SentTo[AppserviceID] = SendStatusOK ) =>
               postErr = NoErr /\ tryPostErr = NoErr
        /\ (httpResp.Synchronous /\ httpResp.SentToNil) => Retried
        /\ (~httpResp.Synchronous /\ ExpectSynchronous) => Retried
        /\ (~httpResp.Synchronous /\ ~ExpectSynchronous) =>
               postErr = NoErr /\ tryPostErr = NoErr

\* A synchronous 2xx answer without sent_to has sent the dispatcher to its retry
\* sleep although synchronous confirmation is not required.
C11_Witness ==
    /\ OKDecoded /\ httpResp.Synchronous /\ httpResp.SentToNil /\ ~ExpectSynchronous
    /\ postErr = ErrMissingSentTo /\ pc = "postsleep"

\* ----------------------------------------------------------------------- C12
\* The answer signals websocket not connected: as the errcode of the JSON body of
\* a non-2xx response, or as the target's status in a synchronous 2xx response.
WsSignal ==
    /\ httpResp.Do /\ httpResp.Decodes
    /\ \/ /\ httpResp.StatusCode < 200 \/ httpResp.StatusCode >= 300
          /\ httpResp.ErrCode = ErrCodeWsNotConnected
       \/ /\ OKDecoded /\ httpResp.Synchronous /\ ~httpResp.SentToNil
          /\ httpResp.SentTo[AppserviceID] = SendStatusWebsocketNotConnected

\* Any other per-target status or a missing entry of a synchronous 2xx response,
\* any other non-2xx response, an undecodable body.
OtherFailure ==
    /\ httpResp.Do
    /\ \/ ~httpResp.Decodes
       \/ /\ httpResp.StatusCode < 200 \/ httpResp.StatusCode >= 300
          /\ httpResp.ErrCode # ErrCodeWsNotConnected
       \/ /\ OKDecoded /\ httpResp.Synchronous /\ ~httpResp.SentToNil
          /\ httpResp.SentTo[AppserviceID]
                \notin {SendStatusOK, SendStatusWebsocketNotConnected}

\* C12: a websocket-not-connected signal makes postTransaction return
\* errWebsocketNotConnected and tryPostTransaction return without a retry; what
\* it returns is that error (the context's error if the context has been
\* cancelled meanwhile).  Every other failure of the kinds above is retried.
C12_WsNotConnectedNotRetried ==
    postErr # "" =>
        /\ WsSignal =>
              /\ postErr = errWebsocketNotConnected
              /\ tryPostErr = IF ctxCancelled THEN ErrCanceled ELSE errWebsocketNotConnected
        /\ OtherFailure => Retried

\* After one retried attempt a synchronous 2xx answer reports the target's
\* websocket as not connected, and tryPostTransaction has returned that.
C12_Witness ==
    /\ tryPostErr = errWebsocketNotConnected
    /\ httpResp.StatusCode = 200
    /\ txnRetryIn > initialTransactionRetrySleep

\* ----------------------------------------------------------------------- C17
\* C17: a DELETE answered not-found found no target and one answered not-active
\* found a target with Active false, and neither step changes anything of the
\* target, its row or its goroutines; a DELETE that goes on to wait found the
\* target active and has called Stop (which cancels the context if a cancel
\* function is installed); it is answered only when the WaitGroup counter is
\* zero and the Start call that held the lock when it arrived has finished.
C17_DeleteContract ==
    [][ /\ delResp' = errTargetNotFound =>
              ~inTargets /\ UNCHANGED <<memVars, dbVars, goVars, loopVars>>
        /\ delResp' = errTargetNotActive =>
              inTargets /\ ~Active /\ UNCHANGED <<memVars, dbVars, goVars, loopVars>>
        /\ delWaiting' > delWaiting =>
              inTargets /\ Active /\ (cancel => ctxCancelled')
        /\ delResp' = DeleteStopped => wgCount = 0 /\ ~delLoop
      ]_vars

\* The DELETE that cancelled a polling loop is answered after that loop's Start
\* call has returned.
C17_Witness ==
    delResp = DeleteStopped /\ pc = "idle" /\ syncErr = ErrCanceled /\ ~Active

\* ----------------------------------------------------------------------- C13
\* C13: within one loop, the transaction made of a response carries the
\* one-time-key count if and only if no transaction of the loop has carried a
\* count yet or the response's count differs from the one carried last; the
\* count it carries is the response's.
C13_OTKCountWhenDue ==
    [][ (pc = "poll" /\ txn'.made) =>
           /\ txn'.DeviceOTKCount <=> (~otkEverSent \/ syncResp'.otk # otkLastSent)
           /\ txn'.DeviceOTKCount => txn'.Count = syncResp'.otk
      ]_vars

\* After the count 1 was carried, a response with count 1 and an event has made
\* a transaction without the count.
C13_Witness ==
    /\ txn.made /\ ~txn.DeviceOTKCount /\ txn.EphemeralEvents = 1
    /\ syncResp.otk = 1 /\ otkEverSent /\ otkLastSent = 1

\* ----------------------------------------------------------------------- C14
\* C14 as stated: a transaction is made of a response if and only if it has
\* to-device events, or a changed or a left device-list entry, or its
\* one-time-key count is due.
C14_TxnIffAnyPart ==
    [][ pc = "poll" =>
           ( txn'.made <=>
               \/ syncResp'.events > 0
               \/ syncResp'.changed > 0
               \/ syncResp'.left > 0
               \/ ~otkEverSent
               \/ syncResp'.otk # otkLastSent )
      ]_vars

\* ----------------------------------------------------------------------- C15
\* C15 as stated: a PUT on an existing target that is answered 200 makes all six
\* configurable fields of the target equal to the request's, writes the record
\* exactly if one of the six differed, and starts the target.
C15_PutMakesFieldsEqual ==
    [][ (inTargets /\ putResp' = "200 OK") =>
           /\ cfg' = CfgOf(putReq')
           /\ HSToken' = putReq'.HSToken
           /\ wrote' <=> (cfg # CfgOf(putReq') \/ HSToken # putReq'.HSToken)
           /\ nCheck' = nCheck + 1
      ]_vars

\* ----------------------------------------------------------------------- C16
\* C16 as stated: once the PUT has been repeated, the cancellation it causes
\* writes nothing to the target's row (next_batch apart), and at most one loop
\* runs.
C16_SecondPutWritesNothing ==
    /\ [][ (putResp # "" /\ ctxCancelled) =>
              UNCHANGED <<dbRow, dbHSToken, dbActive, dbCfg>> ]_vars
    /\ [](loops <= 1)

\* C16, amended: the repeated PUT itself performs no upsert and leaves the row
\* as it is, and the row's configuration columns never change afterwards; the
\* Start it spawns cancels the running loop before waiting for the lock, so at
\* most one loop runs; and whenever a loop is inside sync the target is active
\* and the stored flag is true again unless its write failed.
C16_SecondPutRestarts ==
    /\ [][ (nCheck' = nCheck + 1) => (~wrote' /\ UNCHANGED dbVars) ]_vars
    /\ [][ dbRow' = dbRow /\ dbHSToken' = dbHSToken /\ dbCfg' = dbCfg ]_vars
    /\ [](loops <= 1)
    /\ []((nLockWait > 0 /\ loops = 1) => ctxCancelled)
    /\ []((loops = 1 /\ pc \in SuspendedPcs) =>
             (Active /\ (dbActive \/ activeWriteFailed)))

\* The repeated PUT has been answered and its Start runs the one loop, the
\* earlier loop having exited; the row is active again.
C16_Witness ==
    /\ putResp = "200 OK" /\ ~wrote
    /\ loops = 1 /\ nCheck = 0 /\ nLockWait = 0
    /\ pc = "poll" /\ ~ctxCancelled
    /\ Active /\ dbActive

\* ----------------------------------------------------------------------- C18
\* C18 as stated: a target that is notifying its downstream of a failure, with
\* nobody calling Stop or Start, eventually is idle again: no loop, not active,
\* lock released.
C18_NotificationEnds ==
    (pc \in NotifyPcs) ~> (pc = "idle" /\ ~Active /\ ~lock)

\* ----------------------------------------------------------------------- C19
\* C19: under every interleaving of the targets' deliveries, the counter values
\* obtained by the draws are strictly increasing in the order of the draws (so
\* no two draws obtain the same value), every draw advances the counter by one
\* and obtains the advanced value.
C19_DrawsStrictlyIncrease ==
    /\ [](\A i \in 1..Len(draws) : \A j \in 1..Len(draws) :
             i < j => draws[i] < draws[j])
    /\ [][ draws' # draws =>
              /\ lastTxnID' = lastTxnID + 1
              /\ draws' = Append(draws, lastTxnID') ]_vars

\* Two targets are delivering at once, a proxy among them, after draws by both.
C19_Witness ==
    /\ \A t \in AppserviceIDs : dpc[t] \in {"attempt", "sent"}
    /\ txnID["T1"] # txnID["T2"]
    /\ Len(draws) >= 3

\* ----------------------------------------------------------------------- C20
\* C20 as stated: the path identifier of a proxy target comes from a second
\* counter, so drawing it leaves the counter of the wrapped transaction ids
\* alone; it never equals a wrapped id, the body carries the wrapped id, and a
\* target that is no proxy uses the wrapped id for the path.
C20_PathIDFromSecondCounter ==
    /\ [][ \A t \in AppserviceIDs :
              (dpc[t] = "attempt" /\ dpc'[t] = "sent" /\ IsProxy[t]) =>
                  lastTxnID' = lastTxnID ]_vars
    /\ [](\A t \in AppserviceIDs : dpc[t] = "sent" =>
             /\ WrappedTxnID[t] = txnID[t]
             /\ IsProxy[t] => pathTxnID[t] \notin wrappedIDs
             /\ ~IsProxy[t] => pathTxnID[t] = txnID[t])

\* C20, amended: the path identifier of a proxy target is drawn, on every
\* attempt, from the same counter as the wrapped ids and formatted with the
\* wrapper format: it takes the next counter value, never equals a wrapped id,
\* and the body carries the wrapped id, which attempts leave unchanged; a target
\* that is no proxy uses the wrapped id for the path and draws nothing.
C20_PathIDFromSameCounter ==
    /\ [][ \A t \in AppserviceIDs :
              (dpc[t] = "attempt" /\ dpc'[t] = "sent") =>
                  /\ txnID'[t] = txnID[t]
                  /\ IF IsProxy[t]
                     THEN /\ lastTxnID' = lastTxnID + 1
                          /\ pathTxnID'[t].counter = lastTxnID'
                          /\ pathTxnID'[t] # pathTxnID[t]
                     ELSE lastTxnID' = lastTxnID ]_vars
    /\ [](\A t \in AppserviceIDs : dpc[t] = "sent" =>
             /\ WrappedTxnID[t] = txnID[t]
             /\ txnID[t] \in wrappedIDs
             /\ txnID[t].format = txnIDFormat
             /\ IsProxy[t] => /\ pathTxnID[t] \notin wrappedIDs
                              /\ pathTxnID[t].format = wrapperTxnIDFormat
             /\ ~IsProxy[t] => pathTxnID[t] = txnID[t])

\* A proxy target's second attempt is on the wire while another target, no
\* proxy, has a request on the wire too.
C20_Witness ==
    \E t \in AppserviceIDs, u \in AppserviceIDs :
        /\ IsProxy[t] /\ dpc[t] = "sent"
        /\ pathTxnID[t].counter > txnID[t].counter + 1
        /\ ~IsProxy[u] /\ dpc[u] = "sent"

\* ----------------------------------------------------------------------- C21
\* C21: a long-poll follows a delivery only on the step in which the delivery's
\* request is answered successfully, and that step sets the resume token to the
\* delivered response's; the token (field and row) changes only on a step that
\* handles a long-poll response without a delivery or a delivery's success, and
\* leaves the loop outside any delivery; a loop that returns out of a delivery
\* leaves the token as it was (a loop that returns right after a successful
\* delivery, finding its context cancelled at the next long-poll, has stored it).
C21_DeliverThenPersistThenPoll ==
    /\ [][ (pc \in {"post", "postsleep"} /\ pc' \in {"poll", "sleep"}) =>
              (pc = "post" /\ pc' = "poll" /\ NextBatch' = respNextBatch) ]_vars
    /\ [][ (NextBatch' # NextBatch \/ dbNextBatch' # dbNextBatch) =>
              /\ pc \in {"poll", "post"}
              /\ pc' \in {"poll", "exit"}
              /\ pc = "post" => NextBatch' = respNextBatch
              /\ pc' = "exit" => syncErr' = ErrCanceled ]_vars
    /\ [][ (pc \in {"post", "postsleep"} /\ pc' \notin {"post", "postsleep", "poll"}) =>
              IF syncErr' \in {ErrTxnCanceled, ErrTxnWsNotConnected}
              THEN UNCHANGED <<NextBatch, dbNextBatch>>
              ELSE /\ syncErr' = ErrCanceled
                   /\ pc = "post" /\ NextBatch' = respNextBatch ]_vars

\* A loop polls again after a delivery, the delivered response's token stored in
\* the field and in the row.
C21_Witness ==
    /\ pc = "poll" /\ otkCountSent
    /\ txnRetryIn = initialTransactionRetrySleep
    /\ NextBatch = 2 /\ dbNextBatch = 2

\* ----------------------------------------------------------------------- C22
\* The smaller of two numbers.
Min(a, b) == IF a < b THEN a ELSE b

\* The delays of a failure streak, in seconds.
Delays == {2, 4, 8, 16, 32, 64, 120}

\* C22: in sync's loop and in tryPostTransaction's, the delay is one of 2, 4, 8,
\* 16, 32, 64, 120 seconds; a failure sleeps for the current delay and the end
\* of the sleep makes the next delay min(2 x delay, 120); sync's delay is 2
\* after CreateFilter and after every successful long-poll, and every delivery
\* (of a transaction or of an error notification) begins with delay 2.  The
\* steps looked at are the loop's: those of a PUT handler and of a Start that
\* has not taken the lock change nCheck or nLockWait.
C22_BackoffSchedule ==
    /\ [](retryIn \in Delays /\ txnRetryIn \in Delays)
    /\ [][ (nCheck' = nCheck /\ nLockWait' = nLockWait) =>
           /\ (pc = "sleep" /\ pc' = "poll") => retryIn' = Min(2 * retryIn, 120)
           /\ (pc = "poll" /\ pc' = "sleep") => retryIn' = retryIn
           /\ (pc \in {"filter", "poll", "post"} /\ pc' \in {"poll", "post", "postsleep"})
                 => retryIn' = 2
           /\ (pc \notin {"post", "postsleep"} /\ pc' \in {"post", "postsleep"})
                 => txnRetryIn' = 2
           /\ (pc \notin NotifyPcs /\ pc' \in NotifyPcs) => txnRetryIn' = 2
           /\ (pc = "postsleep" /\ pc' \in {"post", "postsleep"})
                 => txnRetryIn' = Min(2 * txnRetryIn, 120)
           /\ (pc = "nsleep" /\ pc' \in NotifyPcs)
                 => txnRetryIn' = Min(2 * txnRetryIn, 120)
           /\ (pc = "post" /\ pc' = "postsleep") => txnRetryIn' = txnRetryIn
           /\ (pc = "npost" /\ pc' = "nsleep") => txnRetryIn' = txnRetryIn
         ]_vars

\* A loop that has delivered a transaction (which put its delay back to 2) is
\* in a streak of failed long-polls at the cap.
C22_Witness ==
    /\ pc = "sleep" /\ retryIn = maxSyncRetryInterval
    /\ otkCountSent /\ NextBatch > 0

\* ----------------------------------------------------------------------- C23
\* C23: whatever the length of the streak, a retry sleep of sync ends in the
\* next long-poll or, the context being cancelled, in sync returning the
\* cancellation; a long-poll ends the loop only with M_UNKNOWN_TOKEN, a
\* cancellation or a panic, and only the first of these is notified.  A retry
\* sleep of a delivery ends in the next attempt or in the cancellation; an
\* attempt ends the delivery only by success, by websocket-not-connected or by
\* cancellation.  The same holds for the delivery of an error notification.
C23_StreakEndsBySuccessOrCancel ==
    [][ (nCheck' = nCheck /\ nLockWait' = nLockWait) =>
        /\ pc = "sleep" =>
              \/ pc' = "poll"
              \/ ctxCancelled /\ pc' = "exit" /\ syncErr' = ErrCanceled
        /\ (pc = "poll" /\ pc' \notin {"poll", "sleep", "post", "postsleep"}) =>
              \/ syncErr' = ErrUnknownToken /\ proxyErr' = ProxyErrorLoggedOut
              \/ ctxCancelled /\ syncErr' \in {ErrCanceled, ErrTxnCanceled} /\ pc' = "exit"
              \/ syncErr' = ErrPanic /\ pc' = "exit"
        /\ pc = "postsleep" =>
              \/ pc' \in {"post", "postsleep"}
              \/ ctxCancelled /\ pc' = "exit" /\ syncErr' = ErrTxnCanceled
        /\ (pc = "post" /\ pc' \notin {"post", "postsleep", "poll"}) =>
              \/ ~ctxCancelled /\ syncErr' = ErrTxnWsNotConnected
              \/ ctxCancelled /\ pc' = "exit" /\ syncErr' \in {ErrTxnCanceled, ErrCanceled}
        /\ pc = "nsleep" => (pc' \in NotifyPcs \/ (ctxCancelled /\ pc' = "exit"))
        /\ pc = "npost" => pc' \in {"nsleep", "exit"}
        /\ (pc \in NotifyPcs /\ pc' \in NotifyPcs) => proxyErr' = proxyErr
      ]_vars

\* A delivery is in a streak of failures at the cap: the loop is alive and
\* nothing has been notified.
C23_Witness ==
    /\ pc = "postsleep" /\ txnRetryIn = maxTransactionRetryInterval
    /\ loops = 1 /\ syncErr = "" /\ proxyErr = ""

\* ----------------------------------------------------------------------- C24
\* C24: under every interleaving of PUT handlers for one id, an entry of the
\* map is never replaced or removed; a handler to which GetOrSetTarget returned
\* nil has its own candidate in the map, and a handler to which it returned an
\* entry got another request's candidate, the one in the map; so exactly one
\* candidate is installed.
C24_LookupOrInsertAtomic ==
    /\ [][targets # 0 => targets' = targets]_vars
    /\ [](\A h \in Handlers : hpc[h] \in {"init", "rest", "done"} =>
             IF hGot[h] = 0
             THEN targets = hReq[h]
             ELSE targets = hGot[h] /\ hGot[h] # hReq[h])

\* Two requests were in the lookup at once: one installed its candidate and the
\* other got that entry.
C24_Witness ==
    /\ hGot["H1"] = 0 /\ hGot["H2"] = hReq["H1"]
    /\ hpc["H1"] = "init" /\ hpc["H2"] = "rest"

\* ----------------------------------------------------------------------- C29
\* C29 as stated: a Start is spawned for the entry only when its Init has
\* completed successfully, and a PUT answered with the failure of Init has left
\* no entry in the map.
C29_StartOnlyAfterInit ==
    /\ startedOn \subseteq {"ok"}
    /\ \A h \in Handlers :
          hResp[h] = "FI.MAU.SYNCPROXY.INVALID_ADDRESS" => targets = 0

\* ----------------------------------------------------------------------- C25
\* C25, for a target whose row exists: a step that assigns a new resume token
\* either stores it too or, the UPDATE failing, leaves the stored one; in both
\* cases the loop goes on to the next long-poll (or returns the cancellation of
\* its context) and nothing is notified.  A step that assigns the active flag is
\* Start's SetActive(true), after which Start goes on to sync, or the deferred
\* SetActive(false); it stores the flag too or, the UPDATE failing, leaves the
\* stored one.
C25_StoreFailureNotFatal ==
    /\ [][ NextBatch' # NextBatch =>
              /\ dbNextBatch' \in {NextBatch', dbNextBatch}
              /\ pc' \in {"poll", "exit"}
              /\ pc' = "exit" => (ctxCancelled /\ syncErr' = ErrCanceled)
              /\ proxyErr' = "" ]_vars
    /\ [][ Active' # Active =>
              /\ dbActive' = IF activeWriteFailed' THEN dbActive ELSE Active'
              /\ \/ pc = "locked" /\ pc' = "active" /\ Active'
                 \/ pc = "exit" /\ pc' = "cleanup" /\ ~Active' ]_vars
    /\ [](dbRow /\ (pc \in SuspendedPcs => Active))

\* A loop polls on after the write of its active flag and the write of its
\* second resume token have failed, the first token having been stored.
C25_Witness ==
    /\ pc = "poll" /\ ~ctxCancelled /\ syncErr = "" /\ proxyErr = ""
    /\ Active /\ ~dbActive /\ activeWriteFailed
    /\ NextBatch = 2 /\ dbNextBatch = 1

\* ----------------------------------------------------------------------- C26
\* C26 as stated: once a DELETE has called Stop on the target of a Start call
\* that has set running and has not returned, that call returns.
C26_StopEndsLoop ==
    (running /\ delWaiting > 0) ~> (pc = "idle")

\* ----------------------------------------------------------------------- C27
\* C27 as stated: when a DELETE is answered with success, no Start call is
\* between Lock and Unlock and none is pending, before the lock or blocked on
\* it, that would begin a loop without a further PUT.
C27_NoLoopAfterDelete ==
    [][ delResp' = DeleteStopped =>
           (loops' = 0 /\ nCheck' = 0 /\ nLockWait' = 0) ]_vars

\* ----------------------------------------------------------------------- C28
\* C28: from its first attempt until tryPostTransaction returns, a delivery
\* keeps its txnID, and every request of it carries that id in the body; the
\* path of a request of a target that is no proxy is that id; the path of a
\* request of a proxy is a wrapper id whose counter value no earlier draw has
\* obtained, so it differs from the path of every earlier request.
C28_AttemptsShareWrappedID ==
    /\ [][ \A t \in AppserviceIDs :
              (dpc[t] \in {"attempt", "sent"} /\ dpc'[t] \in {"attempt", "sent"}) =>
                  txnID'[t] = txnID[t] ]_vars
    /\ [][ \A t \in AppserviceIDs :
              (dpc[t] = "attempt" /\ dpc'[t] = "sent") =>
                  /\ WrappedTxnID'[t] = txnID[t]
                  /\ IF IsProxy[t]
                     THEN /\ pathTxnID'[t].format = wrapperTxnIDFormat
                          /\ \A i \in 1..Len(draws) : draws[i] # pathTxnID'[t].counter
                     ELSE pathTxnID'[t] = txnID[t] ]_vars

\* A proxy target's delivery is at its third attempt, alone in drawing.
C28_Witness ==
    \E t \in AppserviceIDs :
        /\ IsProxy[t] /\ dpc[t] = "sent"
        /\ WrappedTxnID[t] = txnID[t]
        /\ pathTxnID[t].counter = txnID[t].counter + 3
        /\ Len(draws) = txnID[t].counter + 3

\* ----------------------------------------------------------------------- C30
\* C30: a Start call enters sync with no count sent and the previous count
\* zero, whatever earlier loops of the target have sent; and of the first
\* well-formed response of a loop a transaction is made that carries the
\* response's one-time-key count.
C30_FirstResponseCarriesOTK ==
    /\ [](pc \in {"locked", "active", "filter"} => (~otkCountSent /\ prevOTKCount = 0))
    /\ [][ (/\ pc = "poll" /\ ~otkCountSent
            /\ nCheck' = nCheck /\ nLockWait' = nLockWait
            /\ pc' # "sleep"
            /\ syncErr' \notin {ErrUnknownToken, ErrCanceled, ErrPanic}) =>
              /\ firstOfLoop'
              /\ txn'.made /\ txn'.DeviceOTKCount /\ txn'.Count = syncResp'.otk
              /\ pc' # "exit" => otkCountSent' ]_vars

\* The first response of a later loop has no events and no device-list changes,
\* and its count is the one an earlier loop sent last: the transaction made of
\* it carries the count.
C30_Witness ==
    /\ firstOfLoop /\ sentBefore /\ otkBefore = syncResp.otk
    /\ syncResp.events = 0 /\ syncResp.changed = 0 /\ syncResp.left = 0
    /\ txn.made /\ txn.DeviceOTKCount /\ txn.Count = otkBefore
    /\ pc = "post"

====
